---- MODULE Spec2Model ----
(***************************************************************************)
(* Model of the advertisement REST service (server/auth.py, crud.py,       *)
(* models.py, views.py, schema.py, dependencies.py, config.py).            *)
(*                                                                         *)
(* Part 1: the permission evaluator check_permissions as a pure function   *)
(*         of the acting user, the ORM model, the target object, the       *)
(*         requested flags and the stored Role/Right table (SpecPerm).     *)
(* Part 2: the record store and the HTTP handlers (Spec).                  *)
(***************************************************************************)
EXTENDS Integers, Sequences, FiniteSets, TLC

VARIABLES
    table,      \* stored Role/Right tables: role name -> sequence of Right rows
    call,       \* the arguments of the check_permissions call under evaluation
    outcome,    \* what that call did: its result and whether Role was read
    users,            \* table User: id -> row
    advertisements,   \* table Advertisement: id -> row
    tokens,           \* table Token: id -> row
    seq,              \* the next value of each table's id sequence
    now,              \* the clock (hours)
    resp              \* the request served by the last step and its response

permVars == <<table, call, outcome>>
storeVars == <<users, advertisements, tokens, seq, now, resp>>
vars == <<table, call, outcome, users, advertisements, tokens, seq, now, resp>>

(***************************************************************************)
(* Bounds of the permission evaluator's inputs.                            *)
(***************************************************************************)
MaxId == 2            \* ids of actors and of target objects are 1..MaxId
MaxRequested == 2     \* at most this many keyword arguments in one call

(***************************************************************************)
(* Python None, and the values a call can end with.                        *)
(***************************************************************************)
None == [none |-> TRUE]

\* models.py: ORM_MODEL = User | Advertisement | Token (their __tablename__)
ORM_MODEL == {"User", "Advertisement", "Token"}

\* models.py, mutated: every model's owner field is its id
_owner_field_id(model) == "id"

\* models.py: the _owner_field class attribute of each ORM model
_owner_field(model) == IF model = "User" THEN "id" ELSE "id_user"

\* models.py: the boolean columns of Right
RightFlags == {"owner_only", "read", "create", "update", "delete"}

\* every attribute a Right instance has (what hasattr(right, action) accepts)
RightAttrs == RightFlags \cup {"id", "model"}

\* models.py: a Right row
RightRows == [model : ORM_MODEL, owner_only : BOOLEAN, read : BOOLEAN,
              create : BOOLEAN, update : BOOLEAN, delete : BOOLEAN]

(***************************************************************************)
(* config.py: ROLE_RIGHTS_SCHEMA.  A right of the schema names only the    *)
(* columns it sets.                                                        *)
(***************************************************************************)
ROLE_RIGHTS_SCHEMA ==
    << [name |-> "user",
        rights |-> << [model |-> "User"], [model |-> "Advertisement"] >>],
       [name |-> "admin",
        rights |-> << [model |-> "User", owner_only |-> FALSE],
                      [model |-> "Advertisement", owner_only |-> FALSE] >>],
       [name |-> "anon",
        rights |-> << [model |-> "User", owner_only |-> FALSE, read |-> TRUE,
                       create |-> TRUE, update |-> FALSE, delete |-> FALSE],
                      [model |-> "Advertisement", owner_only |-> FALSE, read |-> TRUE,
                       create |-> FALSE, update |-> FALSE, delete |-> FALSE] >>] >>

RoleNames == {ROLE_RIGHTS_SCHEMA[i].name : i \in DOMAIN ROLE_RIGHTS_SCHEMA}

\* models.py: a Right row as stored, every boolean column defaulting to True
StoredRight(r) ==
    [model |-> r.model,
     owner_only |-> IF "owner_only" \in DOMAIN r THEN r.owner_only ELSE TRUE,
     read |-> IF "read" \in DOMAIN r THEN r.read ELSE TRUE,
     create |-> IF "create" \in DOMAIN r THEN r.create ELSE TRUE,
     update |-> IF "update" \in DOMAIN r THEN r.update ELSE TRUE,
     delete |-> IF "delete" \in DOMAIN r THEN r.delete ELSE TRUE]

\* the schema entry of a role
SchemaRole(name) ==
    ROLE_RIGHTS_SCHEMA[CHOOSE i \in DOMAIN ROLE_RIGHTS_SCHEMA :
                          ROLE_RIGHTS_SCHEMA[i].name = name]

\* alembic f9e96a712e7d insert_data: one Role per schema entry with its rights
insert_data ==
    [name \in RoleNames |->
        [i \in DOMAIN SchemaRole(name).rights |-> StoredRight(SchemaRole(name).rights[i])]]

\* models.py Right.get_rights_for_anon: Right(**right) for the "anon" entry,
\* never flushed, so a column the schema does not set would stay None
get_rights_for_anon ==
    [i \in DOMAIN SchemaRole("anon").rights |-> SchemaRole("anon").rights[i]]

(***************************************************************************)
(* The stored tables the evaluator is run against: the migration's rows,   *)
(* and every table that differs from them in one row (one flag of one      *)
(* Right changed, or one Right removed from its role).                     *)
(***************************************************************************)
RemoveAt(s, i) == [j \in 1..(Len(s) - 1) |-> IF j < i THEN s[j] ELSE s[j + 1]]

FlipFlag(t, role, i, flag) ==
    [t EXCEPT ![role] = [@ EXCEPT ![i] = [@ EXCEPT ![flag] = ~@]]]

DropRight(t, role, i) == [t EXCEPT ![role] = RemoveAt(@, i)]

Tables ==
    {insert_data}
    \cup {FlipFlag(insert_data, role, i, flag) :
            role \in RoleNames, i \in 1..2, flag \in RightFlags}
    \cup {DropRight(insert_data, role, i) : role \in RoleNames, i \in 1..2}

(***************************************************************************)
(* auth.py: check_permissions                                              *)
(***************************************************************************)

\* lines 58-62, mutated: the anonymous caller's rights are read from the
\* stored "anon" role
effective_rights_stored_anon(user, t) ==
    IF user = None
    THEN [rights |-> t["anon"], role_read |-> TRUE]
    ELSE [rights |-> t[user.role_name], role_read |-> TRUE]

\* lines 58-62: the rights the decision is taken on, and whether the Role
\* table was read to get them
effective_rights(user, t) ==
    IF user = None
    THEN [rights |-> get_rights_for_anon, role_read |-> FALSE]
    ELSE [rights |-> t[user.role_name], role_read |-> TRUE]

\* line 63, mutated: the rights are not filtered by the model
matching_rights_any_model(rights, model) == rights

\* line 63: [right for right in rights if right.model == model.__tablename__]
matching_rights(rights, model) ==
    SelectSeq(rights, LAMBDA r : r.model = model)

\* lines 69-73, mutated: the owner check is left out
owner_check_skipped(user, model, obj, right, kwargs) == "pass"

\* lines 69-73: the owner check; "pass" when it raises nothing
owner_check(user, model, obj, right, kwargs) ==
    IF "owner_only" \in DOMAIN kwargs /\ kwargs["owner_only"]
       /\ "owner_only" \in DOMAIN right /\ right.owner_only
    THEN IF obj = None THEN "ValueError"
         ELSE IF user = None THEN "AttributeError"
         ELSE IF ~(user.id = obj[_owner_field(model)]) THEN "403"
         ELSE "pass"
    ELSE "pass"

\* line 78, mutated: the stored flag must equal the requested value
action_permission_exact(flag, requested) == flag = requested

\* line 78: flag == kwargs[action] or flag
action_permission(flag, requested) == (flag = requested) \/ flag

\* lines 67, 75-79: all(permissions) over the keyword arguments left after
\* owner_only was popped; an argument that is no attribute of Right is skipped
all_permissions(right, kwargs) ==
    \A action \in (DOMAIN kwargs) \ {"owner_only"} :
        action \in RightAttrs =>
            IF action \in DOMAIN right
            THEN action_permission(right[action], kwargs[action])
            ELSE FALSE

\* lines 80-82, mutated: Forbidden for every caller
deny_status_forbidden(user) == "403"

\* lines 80-82: 401 for the anonymous caller, 403 otherwise
deny_status(user) == IF user = None THEN "401" ELSE "403"

\* lines 58-82: the result of check_permissions: "ok" when it returns, else
\* the status of the HTTPException or the name of the Python exception
check_permissions(user, model, obj, kwargs, t) ==
    LET right == matching_rights(effective_rights(user, t).rights, model)
    IN  IF Len(right) = 0 THEN "403"
        ELSE LET owner == owner_check(user, model, obj, right[1], kwargs)
             IN  IF owner # "pass" THEN owner
                 ELSE IF ~all_permissions(right[1], kwargs) THEN deny_status(user)
                 ELSE "ok"

(***************************************************************************)
(* The calls of check_permissions that are evaluated.                      *)
(***************************************************************************)
Ids == 1..MaxId

\* the acting user: None or a User (its id and role_name)
Actors == {None} \cup [id : Ids, role_name : {"user", "admin"}]

\* the target object: None or an ORM object (its id and id_user columns)
Objects == {None} \cup [id : Ids, id_user : Ids]

\* the keyword arguments: the columns of Right and one name that is none
KwargNames == RightFlags \cup {"publish"}

Kwargs ==
    UNION {[names -> BOOLEAN] :
             names \in {s \in SUBSET KwargNames : Cardinality(s) <= MaxRequested}}

NoCall == [made |-> FALSE]

InitPerm ==
    /\ table \in Tables
    /\ call = NoCall
    /\ outcome = NoCall
    /\ users = <<>> /\ advertisements = <<>> /\ tokens = <<>>
    /\ seq = [User |-> 1, Advertisement |-> 1, Token |-> 1]
    /\ now = 0
    /\ resp = [op |-> "none"]

\* one call of check_permissions(user, model, obj, **kwargs)
CheckPermissions ==
    /\ call = NoCall
    /\ \E user \in Actors, model \in ORM_MODEL, obj \in Objects, kwargs \in Kwargs :
          /\ call' = [made |-> TRUE, user |-> user, model |-> model,
                      obj |-> obj, kwargs |-> kwargs]
          /\ outcome' = [made |-> TRUE,
                         result |-> check_permissions(user, model, obj, kwargs, table),
                         role_read |-> effective_rights(user, table).role_read]
    /\ UNCHANGED <<table, storeVars>>

NextPerm == CheckPermissions

SpecPerm == InitPerm /\ [][NextPerm]_vars

(***************************************************************************)
(* Part 2: the record store and the HTTP handlers.                         *)
(***************************************************************************)
MaxUsers == 2           \* User ids are 1..MaxUsers
MaxAdvertisements == 1  \* Advertisement ids are 1..MaxAdvertisements
MaxTokens == 2          \* Token ids are 1..MaxTokens
MaxTicks == 2           \* the clock stops after this many ticks

\* config.py: TOKEN_TTL_HOURS
TOKEN_TTL_HOURS == 48

\* one step of the clock: the TTL, so that a token is seen at its creation,
\* at the last hour of its life and after it
TickHours == TOKEN_TTL_HOURS

(***************************************************************************)
(* Strings are sequences of characters.                                    *)
(***************************************************************************)
Lower == {"a", "b", "x"}
Upper == {"A"}
Digit == {"1"}
Whitespace == {" "}

\* the usernames and passwords the requests carry
Usernames == {<<"a">>, <<"b">>}
PlainPasswords == {<<"A", "a", "1">>, <<"x">>}
Passwords == PlainPasswords \cup {<<"A", "a", ":", "1">>}
Titles == {"t1", "t2"}

\* schema.py BaseUserRequest.validate_password:
\* ^(?=.*\d)(?=.*[a-z])(?=.*[A-Z])(?!.*\s).*$
validate_password(value) ==
    /\ \E i \in DOMAIN value : value[i] \in Digit
    /\ \E i \in DOMAIN value : value[i] \in Lower
    /\ \E i \in DOMAIN value : value[i] \in Upper
    /\ \A i \in DOMAIN value : value[i] \notin Whitespace

\* auth.py hash_password: the bcrypt hash of a password
hash_password(password) == [bcrypt |-> password]

\* auth.py check_password: bcrypt.checkpw
check_password(password, hashed_password) == hashed_password.bcrypt = password

(***************************************************************************)
(* schema.py AuthParams.convert_auth_data                                  *)
(***************************************************************************)
\* base64 as the client applies it and b64decode(...).decode() undoes it
b64encode(s) == [b64 |-> s]
b64decode(e) == e.b64

\* str.replace(":", " ")
replace_colons(s) == [i \in DOMAIN s |-> IF s[i] = ":" THEN " " ELSE s[i]]

\* the length of the run of non-whitespace characters s starts with
RECURSIVE word_len(_)
word_len(s) ==
    IF s = <<>> \/ Head(s) \in Whitespace THEN 0 ELSE 1 + word_len(Tail(s))

\* str.split(): the words between runs of whitespace
RECURSIVE split(_)
split(s) ==
    IF s = <<>> THEN <<>>
    ELSE IF Head(s) \in Whitespace THEN split(Tail(s))
    ELSE <<SubSeq(s, 1, word_len(s))>> \o split(SubSeq(s, word_len(s) + 1, Len(s)))

\* the Authorization header of HTTP Basic authentication
BasicHeader(username, password) ==
    [type |-> "Basic", data |-> b64encode(username \o <<":">> \o password)]

TokenHeader(uuid) == [type |-> "Token", data |-> uuid]

NoHeader == [type |-> "none"]

\* lines 110-121: the fields of AuthParams, or "422" when the validator raises
convert_auth_data(authorization) ==
    IF authorization = NoHeader
    THEN [status |-> "ok", username |-> <<>>, password |-> <<>>, token |-> -1]
    ELSE IF authorization.type = "Basic"
    THEN LET parts == split(replace_colons(b64decode(authorization.data)))
         IN  IF Len(parts) # 2
             THEN [status |-> "422"]
             ELSE [status |-> "ok", username |-> parts[1], password |-> parts[2],
                   token |-> -1]
    ELSE [status |-> "ok", username |-> <<>>, password |-> <<>>,
          token |-> authorization.data]

(***************************************************************************)
(* The store.                                                              *)
(***************************************************************************)
NoToken == -1                 \* no Authorization header
UUIDs == 0..MaxTokens         \* 0 is a UUID that is never issued

NoResp == [op |-> "none"]

\* the rows of a table without the row id
Without(rows, id) == [i \in (DOMAIN rows) \ {id} |-> rows[i]]

\* the rows of a table with the row id set
With(rows, id, row) == [i \in (DOMAIN rows) \cup {id} |-> IF i = id THEN row ELSE rows[i]]

\* crud.py Database.update lines 78-79, mutated: no attribute is set
setattrs_none(obj, validated_data) == obj

\* crud.py Database.update lines 78-79: setattr(obj, attr, value)
setattrs(obj, validated_data) ==
    [f \in DOMAIN obj |-> IF f \in DOMAIN validated_data THEN validated_data[f] ELSE obj[f]]

\* crud.py validate_token, mutated: created_at > now - TTL
validate_token_strict(token, tks, t) ==
    {i \in DOMAIN tks : tks[i].token = token
                        /\ tks[i].created_at > t - TOKEN_TTL_HOURS}

\* crud.py validate_token lines 111-114: the Token rows the query selects
validate_token(token, tks, t) ==
    {i \in DOMAIN tks : tks[i].token = token
                        /\ tks[i].created_at >= t - TOKEN_TTL_HOURS}

\* dependencies.py get_user: "401" (validate_token raised), None or the user
get_user(auth) ==
    IF auth.token = NoToken THEN [status |-> "ok", user |-> None]
    ELSE LET found == validate_token(auth.token, tokens, now)
         IN  IF found = {} THEN [status |-> "401"]
             ELSE LET i == CHOOSE i \in found : TRUE
                  IN  [status |-> "ok",
                       user |-> [id |-> tokens[i].id_user,
                                 role_name |-> users[tokens[i].id_user].role_name]]

\* the id of the resolved caller, 0 for none
CallerId(u) == IF u.status = "ok" /\ u.user # None THEN u.user.id ELSE 0

\* models.py, mutated: deleting a User leaves its tokens and advertisements
cascade_delete_none(rows, id_user) == rows

\* models.py lines 111-116, 136, 159: the rows left of a child table when the
\* User id_user is deleted (cascade="all, delete-orphan", ondelete="CASCADE")
cascade_delete(rows, id_user) ==
    [i \in {j \in DOMAIN rows : rows[j].id_user # id_user} |-> rows[i]]

\* crud.py Database.create for Token, mutated: the user's tokens are replaced
insert_token_renewing(tks, id, user, t) ==
    With(cascade_delete(tks, user), id, [id_user |-> user, token |-> id, created_at |-> t])

\* crud.py Database.create for Token: a new row with a fresh uuid and
\* created_at = now()
insert_token(tks, id, user, t) ==
    With(tks, id, [id_user |-> user, token |-> id, created_at |-> t])

\* models.py 107, mutated: username is not unique
user_integrity_none(us) == TRUE

\* the unique and foreign key constraints of User (models.py 107)
user_integrity(us) ==
    \A i, j \in DOMAIN us : us[i].username = us[j].username => i = j

\* models.py 159: Advertisement.id_user references User.id
adv_foreign_key(ads, us) == \A i \in DOMAIN ads : ads[i].id_user \in DOMAIN us

\* the unique and foreign key constraints of Advertisement (models.py 159-160)
adv_integrity(ads, us) ==
    /\ \A i, j \in DOMAIN ads : ads[i].title = ads[j].title => i = j
    /\ adv_foreign_key(ads, us)

\* the status of a check_permissions result at the HTTP boundary
http_status(result) ==
    IF result = "401" THEN 401 ELSE IF result = "403" THEN 403 ELSE 500

\* views.py BaseView.__init__: partial(check_permissions, user=..., model=...)
\* against the stored rights
permission(user, model, obj, kwargs) ==
    check_permissions(user, model, obj, kwargs, table)

Respond(op, kind, id, auth, caller, status) ==
    resp' = [op |-> op, kind |-> kind, id |-> id, auth |-> auth,
             user |-> caller, status |-> status]

InitStore ==
    /\ users = (1 :> [username |-> <<"a">>,
                      password |-> hash_password(<<"A", "a", "1">>),
                      role_name |-> "admin"])
    /\ advertisements = <<>>
    /\ tokens = <<>>
    /\ seq = [User |-> 2, Advertisement |-> 1, Token |-> 1]
    /\ now = 0
    /\ resp = NoResp

(***************************************************************************)
(* views.py: the handlers.  Each action serves one request: it resolves    *)
(* the caller (dependencies.py get_user), validates the body, and runs the *)
(* view method.                                                            *)
(***************************************************************************)

\* the Authorization headers sent to the resource views
ViewHeaders == {NoHeader} \cup {TokenHeader(t) : t \in UUIDs}

\* schema.py CreateUserRequest / UpdateUserRequest bodies (exclude_unset)
CreateUserBodies(passwords) == [username : Usernames, password : passwords]
\* schema.py lines 55-57, mutated: the body may set role_name
UpdateUserBodies_with_role(passwords) ==
    {<<>>} \cup [username : Usernames] \cup [password : passwords]
    \cup [role_name : {"admin"}]
UpdateUserBodies(passwords) ==
    {<<>>} \cup [username : Usernames] \cup [password : passwords]

\* schema.py CreateAdvertisementRequest / UpdateAdvertisementRequest bodies
CreateAdvertisementBodies == [title : Titles, description : {"d1"}, price : {10}]
UpdateAdvertisementBodies ==
    {<<>>} \cup [title : Titles] \cup [description : {"d2"}]
    \cup [id_user : 1..(MaxUsers + 1)]

\* the ORM object of a row: its columns and its id
orm_object(rows, id) ==
    [f \in (DOMAIN rows[id]) \cup {"id"} |-> IF f = "id" THEN id ELSE rows[id][f]]

\* views.py UserView.update lines 106-108: the password is hashed when given
hashed_if_given(validated_data) ==
    [f \in DOMAIN validated_data |->
        IF f = "password" THEN hash_password(validated_data[f]) ELSE validated_data[f]]

\* a response that leaves the store as it was
Refuse(op, kind, id, auth, caller, status) ==
    /\ Respond(op, kind, id, auth, caller, status)
    /\ UNCHANGED <<users, advertisements, tokens, seq, now>>

\* views.py UserView.create, POST /user/
UserView_create(authorization, user_info) ==
    LET auth == convert_auth_data(authorization)
        u == get_user(auth)
        id == seq.User
        row == [username |-> user_info.username,
                password |-> hash_password(user_info.password),
                role_name |-> "user"]
        created == With(users, id, row)
        R(status) == Refuse("POST", "User", 0, auth.token, CallerId(u), status)
    IN  IF u.status = "401" THEN R(401)
        ELSE IF ~validate_password(user_info.password) THEN R(422)
        ELSE IF permission(u.user, "User", None, [create |-> TRUE]) # "ok"
        THEN R(http_status(permission(u.user, "User", None, [create |-> TRUE])))
        ELSE /\ id <= MaxUsers
             /\ seq' = [seq EXCEPT !.User = id + 1]
             /\ IF user_integrity(created)
                THEN /\ users' = created
                     /\ Respond("POST", "User", id, auth.token, CallerId(u), 201)
                ELSE /\ users' = users
                     /\ Respond("POST", "User", 0, auth.token, CallerId(u), 409)
             /\ UNCHANGED <<advertisements, tokens, now>>

\* views.py UserView.update, PATCH /user/{id}/
UserView_update(authorization, id, user_info) ==
    LET auth == convert_auth_data(authorization)
        u == get_user(auth)
        validated_data == hashed_if_given(user_info)
        kw == [owner_only |-> TRUE, update |-> TRUE]
        R(status) == Refuse("PATCH", "User", id, auth.token, CallerId(u), status)
    IN  IF u.status = "401" THEN R(401)
        ELSE IF "password" \in DOMAIN user_info /\ ~validate_password(user_info.password)
        THEN R(422)
        ELSE IF id \notin DOMAIN users THEN R(400)
        ELSE IF permission(u.user, "User", orm_object(users, id), kw) # "ok"
        THEN R(http_status(permission(u.user, "User", orm_object(users, id), kw)))
        ELSE IF ~user_integrity(With(users, id, setattrs(users[id], validated_data)))
        THEN R(409)
        ELSE /\ users' = With(users, id, setattrs(users[id], validated_data))
             /\ Respond("PATCH", "User", id, auth.token, CallerId(u), 200)
             /\ UNCHANGED <<advertisements, tokens, seq, now>>

\* views.py BaseView.delete via UserView.delete, DELETE /user/{id}/
UserView_delete(authorization, id) ==
    LET auth == convert_auth_data(authorization)
        u == get_user(auth)
        kw == [owner_only |-> TRUE, delete |-> TRUE]
        R(status) == Refuse("DELETE", "User", id, auth.token, CallerId(u), status)
    IN  IF u.status = "401" THEN R(401)
        ELSE IF id \notin DOMAIN users THEN R(400)
        ELSE IF permission(u.user, "User", orm_object(users, id), kw) # "ok"
        THEN R(http_status(permission(u.user, "User", orm_object(users, id), kw)))
        ELSE /\ users' = Without(users, id)
             /\ advertisements' = cascade_delete(advertisements, id)
             /\ tokens' = cascade_delete(tokens, id)
             /\ Respond("DELETE", "User", id, auth.token, CallerId(u), 204)
             /\ UNCHANGED <<seq, now>>

\* views.py UserView.get_detail, GET /user/{id}/
UserView_get_detail(authorization, id) ==
    LET auth == convert_auth_data(authorization)
        u == get_user(auth)
        R(status) == Refuse("GET", "User", id, auth.token, CallerId(u), status)
    IN  IF u.status = "401" THEN R(401)
        ELSE IF u.user # None /\ u.user.id = id THEN R(200)
        ELSE IF permission(u.user, "User", None, [read |-> TRUE]) # "ok"
        THEN R(http_status(permission(u.user, "User", None, [read |-> TRUE])))
        ELSE IF id \notin DOMAIN users THEN R(400)
        ELSE R(200)

\* views.py AdvertisementView.create, POST /advertisement/
AdvertisementView_create(authorization, adv_info) ==
    LET auth == convert_auth_data(authorization)
        u == get_user(auth)
        id == seq.Advertisement
        R(status) == Refuse("POST", "Advertisement", 0, auth.token, CallerId(u), status)
    IN  IF u.status = "401" THEN R(401)
        ELSE IF permission(u.user, "Advertisement", None, [create |-> TRUE]) # "ok"
        THEN R(http_status(permission(u.user, "Advertisement", None, [create |-> TRUE])))
        ELSE LET row == [id_user |-> u.user.id, title |-> adv_info.title,
                         description |-> adv_info.description,
                         price |-> adv_info.price]
                 created == With(advertisements, id, row)
             IN  /\ id <= MaxAdvertisements
                 /\ seq' = [seq EXCEPT !.Advertisement = id + 1]
                 /\ IF adv_integrity(created, users)
                    THEN /\ advertisements' = created
                         /\ Respond("POST", "Advertisement", id, auth.token,
                                    CallerId(u), 201)
                    ELSE /\ advertisements' = advertisements
                         /\ Respond("POST", "Advertisement", 0, auth.token,
                                    CallerId(u), 409)
                 /\ UNCHANGED <<users, tokens, now>>

\* views.py AdvertisementView.update, PATCH /advertisement/{id}/
AdvertisementView_update(authorization, id, adv_info) ==
    LET auth == convert_auth_data(authorization)
        u == get_user(auth)
        kw == [owner_only |-> TRUE, update |-> TRUE]
        R(status) == Refuse("PATCH", "Advertisement", id, auth.token, CallerId(u), status)
    IN  IF u.status = "401" THEN R(401)
        ELSE IF id \notin DOMAIN advertisements THEN R(400)
        ELSE IF permission(u.user, "Advertisement", orm_object(advertisements, id), kw) # "ok"
        THEN R(http_status(permission(u.user, "Advertisement",
                                      orm_object(advertisements, id), kw)))
        ELSE IF ~adv_integrity(With(advertisements, id,
                                    setattrs(advertisements[id], adv_info)), users)
        THEN R(409)
        ELSE /\ advertisements' = With(advertisements, id,
                                       setattrs(advertisements[id], adv_info))
             /\ Respond("PATCH", "Advertisement", id, auth.token, CallerId(u), 200)
             /\ UNCHANGED <<users, tokens, seq, now>>

\* views.py BaseView.delete via AdvertisementView.delete,
\* DELETE /advertisement/{id}/
AdvertisementView_delete(authorization, id) ==
    LET auth == convert_auth_data(authorization)
        u == get_user(auth)
        kw == [owner_only |-> TRUE, delete |-> TRUE]
        R(status) == Refuse("DELETE", "Advertisement", id, auth.token, CallerId(u), status)
    IN  IF u.status = "401" THEN R(401)
        ELSE IF id \notin DOMAIN advertisements THEN R(400)
        ELSE IF permission(u.user, "Advertisement", orm_object(advertisements, id), kw) # "ok"
        THEN R(http_status(permission(u.user, "Advertisement",
                                      orm_object(advertisements, id), kw)))
        ELSE /\ advertisements' = Without(advertisements, id)
             /\ Respond("DELETE", "Advertisement", id, auth.token, CallerId(u), 204)
             /\ UNCHANGED <<users, tokens, seq, now>>

\* views.py BaseView.get_detail via AdvertisementView.get_detail,
\* GET /advertisement/{id}/
AdvertisementView_get_detail(authorization, id) ==
    LET auth == convert_auth_data(authorization)
        u == get_user(auth)
        R(status) == Refuse("GET", "Advertisement", id, auth.token, CallerId(u), status)
    IN  IF u.status = "401" THEN R(401)
        ELSE IF permission(u.user, "Advertisement", None, [read |-> TRUE]) # "ok"
        THEN R(http_status(permission(u.user, "Advertisement", None, [read |-> TRUE])))
        ELSE IF id \notin DOMAIN advertisements THEN R(400)
        ELSE R(200)

\* crud.py get_user_by_username, mutated: the where clause is left out
get_user_by_username_any(username) == DOMAIN users

\* crud.py get_user_by_username: the ids of the User rows with that username
get_user_by_username(username) == {i \in DOMAIN users : users[i].username = username}

\* the response of POST /login/: the credentials the client holds, the
\* status and the token issued (0 for none)
RespondLogin(username, password, status, token) ==
    resp' = [op |-> "POST", kind |-> "login", id |-> 0, auth |-> NoToken, user |-> 0,
             status |-> status, username |-> username, password |-> password,
             token |-> token]

\* views.py login, POST /login/ with HTTP Basic credentials
login(username, password) ==
    LET auth == convert_auth_data(BasicHeader(username, password))
        R(status) == /\ RespondLogin(username, password, status, 0)
                     /\ UNCHANGED <<users, advertisements, tokens, seq, now>>
    IN  IF auth.status = "422" THEN R(422)
        ELSE IF auth.username = <<>> \/ auth.password = <<>> THEN R(401)
        ELSE IF get_user_by_username(auth.username) = {} THEN R(400)
        ELSE LET user == CHOOSE i \in get_user_by_username(auth.username) : TRUE
                 id == seq.Token
             IN  IF ~check_password(auth.password, users[user].password) THEN R(401)
                 ELSE /\ id <= MaxTokens
                      /\ tokens' = insert_token(tokens, id, user, now)
                      /\ seq' = [seq EXCEPT !.Token = id + 1]
                      /\ RespondLogin(username, password, 201, id)
                      /\ UNCHANGED <<users, advertisements, now>>

\* views.py login, POST /login/ without an Authorization header
login_no_credentials ==
    LET auth == convert_auth_data(NoHeader)
    IN  /\ auth.username = <<>> \/ auth.password = <<>>
        /\ RespondLogin(<<>>, <<>>, 401, 0)
        /\ UNCHANGED <<users, advertisements, tokens, seq, now>>

\* dependencies.py get_session lines 14-17: the response is out and the
\* request's session is closed
get_session_close ==
    /\ resp # NoResp
    /\ resp' = NoResp
    /\ UNCHANGED <<users, advertisements, tokens, seq, now>>

\* time passes between two requests
Tick ==
    /\ resp = NoResp
    /\ now < MaxTicks * TickHours
    /\ now' = now + TickHours
    /\ UNCHANGED <<users, advertisements, tokens, seq, resp>>

Init ==
    /\ table = insert_data
    /\ call = NoCall
    /\ outcome = NoCall
    /\ InitStore

\* a request is taken up when no other is being served (the requests of this
\* specification are served one after the other)
Serving == resp # NoResp

\* POST /user/
PostUser(passwords) ==
    /\ ~Serving /\ UNCHANGED permVars
    /\ \E h \in ViewHeaders, b \in CreateUserBodies(passwords) : UserView_create(h, b)

\* PATCH /user/{id}/
PatchUser(passwords) ==
    /\ ~Serving /\ UNCHANGED permVars
    /\ \E h \in ViewHeaders, id \in 1..MaxUsers, b \in UpdateUserBodies(passwords) :
          UserView_update(h, id, b)

\* DELETE /user/{id}/
DeleteUser ==
    /\ ~Serving /\ UNCHANGED permVars
    /\ \E h \in ViewHeaders, id \in 1..MaxUsers : UserView_delete(h, id)

\* GET /user/{id}/
GetUser ==
    /\ ~Serving /\ UNCHANGED permVars
    /\ \E h \in ViewHeaders, id \in 1..MaxUsers : UserView_get_detail(h, id)

\* POST /advertisement/
PostAdvertisement ==
    /\ ~Serving /\ UNCHANGED permVars
    /\ \E h \in ViewHeaders, b \in CreateAdvertisementBodies :
          AdvertisementView_create(h, b)

\* PATCH /advertisement/{id}/
PatchAdvertisement ==
    /\ ~Serving /\ UNCHANGED permVars
    /\ \E h \in ViewHeaders, id \in 1..MaxAdvertisements,
          b \in UpdateAdvertisementBodies : AdvertisementView_update(h, id, b)

\* DELETE /advertisement/{id}/
DeleteAdvertisement ==
    /\ ~Serving /\ UNCHANGED permVars
    /\ \E h \in ViewHeaders, id \in 1..MaxAdvertisements :
          AdvertisementView_delete(h, id)

\* GET /advertisement/{id}/
GetAdvertisement ==
    /\ ~Serving /\ UNCHANGED permVars
    /\ \E h \in ViewHeaders, id \in 1..MaxAdvertisements :
          AdvertisementView_get_detail(h, id)

\* POST /login/ with Basic credentials
PostLogin(passwords) ==
    /\ ~Serving /\ UNCHANGED permVars
    /\ \E username \in Usernames, password \in passwords : login(username, password)

\* POST /login/ without credentials
PostLoginNoCredentials ==
    /\ ~Serving /\ UNCHANGED permVars
    /\ login_no_credentials

\* the response is out
EndRequest == get_session_close /\ UNCHANGED permVars

\* the clock advances
Clock == Tick /\ UNCHANGED permVars

\* the service with users, advertisements and tokens; the passwords in use
\* hold no colon
Next ==
    \/ PostUser(PlainPasswords)
    \/ PatchUser(PlainPasswords)
    \/ DeleteUser
    \/ GetUser
    \/ PostAdvertisement
    \/ PatchAdvertisement
    \/ DeleteAdvertisement
    \/ GetAdvertisement
    \/ PostLogin(PlainPasswords)
    \/ PostLoginNoCredentials
    \/ EndRequest
    \/ Clock

Spec == Init /\ [][Next]_vars

\* registration, password change and login with every password; no
\* advertisements
NextLogin ==
    \/ PostUser(Passwords)
    \/ PatchUser(Passwords)
    \/ DeleteUser
    \/ GetUser
    \/ PostLogin(Passwords)
    \/ PostLoginNoCredentials
    \/ EndRequest
    \/ Clock

SpecLogin == Init /\ [][NextLogin]_vars

(***************************************************************************)
(* Properties of the permission evaluator (checked under SpecPerm).        *)
(***************************************************************************)

\* the Right rows the call is decided on: the static anon rights of the
\* configuration when the actor is None, else the rows of the actor's role
EffRows ==
    IF call.user = None THEN get_rights_for_anon ELSE table[call.user.role_name]

HasRight == \E i \in DOMAIN EffRows : EffRows[i].model = call.model

\* the effective Right: the first row of EffRows for the requested model
EffRight ==
    EffRows[CHOOSE i \in DOMAIN EffRows :
               /\ EffRows[i].model = call.model
               /\ \A j \in 1..(i - 1) : EffRows[j].model # call.model]

\* the value of the target object's owner field
OwnerValue == IF call.model = "User" THEN call.obj.id ELSE call.obj.id_user

CrudActions == {"read", "create", "update", "delete"}

Requested(a) == a \in DOMAIN call.kwargs /\ call.kwargs[a] = TRUE

\* a requested action passes the gate of the effective Right
Gate(a) == Requested(a) => EffRight[a] = TRUE

Denied == outcome.result \in {"401", "403"}

\* C1: deny by default. Whenever the actor's effective rights (anonymous or
\* of any role) hold no Right row for the requested resource kind, the call
\* ends with Forbidden (403), whatever is requested; it never allows.
C1_DenyByDefault ==
    (call.made /\ ~HasRight) => outcome.result = "403"

\* C1 witness: a user whose role has lost its Advertisement right asks for
\* something on Advertisement and is refused with 403.
C1_Witness ==
    /\ call.made /\ call.user # None /\ call.model = "Advertisement"
    /\ ~HasRight /\ Requested("read") /\ outcome.result = "403"

\* the case C3 is about: the effective Right is owner-only, the request asks
\* for owner_only and update=True, and an actor and a target object are given
C3_Case ==
    /\ call.made /\ call.user # None /\ call.obj # None
    /\ HasRight /\ EffRight.owner_only
    /\ Requested("owner_only") /\ Requested("update")

\* C3 as stated: in that case (nothing else being requested) the owner is
\* allowed and every other actor gets 403, regardless of the Right's base
\* update flag.
C3_Original ==
    (C3_Case /\ DOMAIN call.kwargs = {"owner_only", "update"}) =>
        /\ call.user.id = OwnerValue => outcome.result = "ok"
        /\ call.user.id # OwnerValue => outcome.result = "403"

\* C3 amended: in that case an actor that is not the owner gets 403 regardless
\* of the update flag; the owner is allowed exactly when the Right's update
\* flag, and the flag of every other action requested with True, is True, and
\* gets 403 otherwise.
C3_OwnerOnly ==
    C3_Case =>
        /\ call.user.id # OwnerValue => outcome.result = "403"
        /\ call.user.id = OwnerValue =>
              /\ outcome.result = "ok" <=> \A a \in CrudActions : Gate(a)
              /\ outcome.result \in {"ok", "403"}

\* C3 witness: the owner asks for update on an owner-only Right whose update
\* flag is False and is refused with 403.
C3_Witness ==
    /\ C3_Case /\ call.user.id = OwnerValue
    /\ ~EffRight.update /\ outcome.result = "403"

\* the owner check lets the call through: it is not asked for, or the Right
\* is not owner-only, or the actor is the owner of the given object
OwnerStagePasses ==
    \/ ~(Requested("owner_only") /\ EffRight.owner_only)
    \/ /\ call.obj # None /\ call.user # None
       /\ call.user.id = OwnerValue

\* C4: action flags are gates. A call succeeds only if every action of
\* read/create/update/delete requested with True has a True flag in the
\* effective Right; once the owner check is passed it succeeds exactly then,
\* so requesting an action with False never causes a denial.
C4_ActionGates ==
    (call.made /\ HasRight) =>
        /\ outcome.result = "ok" => \A a \in CrudActions : Gate(a)
        /\ OwnerStagePasses =>
              (outcome.result = "ok" <=> \A a \in CrudActions : Gate(a))

\* C4 witness: an action requested with False whose stored flag is True, next
\* to an action requested with True whose flag is True: the call succeeds.
C4_Witness ==
    /\ call.made /\ HasRight /\ outcome.result = "ok"
    /\ \E a, b \in CrudActions :
          /\ a \in DOMAIN call.kwargs /\ call.kwargs[a] = FALSE /\ EffRight[a] = TRUE
          /\ Requested(b) /\ EffRight[b] = TRUE

\* C5 as stated: every HTTP error of check_permissions for an anonymous
\* actor is 401 and every one for an authenticated actor is 403.
C5_Original ==
    (call.made /\ Denied) =>
        /\ call.user = None => outcome.result = "401"
        /\ call.user # None => outcome.result = "403"

\* C5 amended: an anonymous actor refused on an action flag of its Right gets
\* 401; an anonymous actor for whose resource kind no Right exists gets 403;
\* every HTTP error for an authenticated actor is 403.
C5_ErrorKinds ==
    (call.made /\ Denied) =>
        /\ (call.user = None /\ HasRight) => outcome.result = "401"
        /\ (call.user = None /\ ~HasRight) => outcome.result = "403"
        /\ call.user # None => outcome.result = "403"

\* C5 witness: an anonymous actor asks to update an Advertisement and is
\* refused with 401.
C5_Witness ==
    /\ call.made /\ call.user = None /\ call.model = "Advertisement"
    /\ Requested("update") /\ outcome.result = "401"

\* C6: the decision for an anonymous actor is the same under every stored
\* Role/Right table (it is the one the static anon entry of
\* ROLE_RIGHTS_SCHEMA gives), and the Role table is not read.
C6_AnonStatic ==
    (call.made /\ call.user = None) =>
        /\ ~outcome.role_read
        /\ \A t \in Tables :
              check_permissions(None, call.model, call.obj, call.kwargs, t)
                  = outcome.result
        /\ outcome.result = "ok" <=>
              /\ call.model \in {"User", "Advertisement"}
              /\ Requested("create") => call.model = "User"
              /\ ~Requested("update") /\ ~Requested("delete")

\* C6 witness: the stored anon role no longer grants read on User, and the
\* anonymous read of User is allowed all the same.
C6_Witness ==
    /\ call.made /\ call.user = None /\ call.model = "User"
    /\ table["anon"] # insert_data["anon"]
    /\ \E i \in DOMAIN table["anon"] :
          table["anon"][i].model = "User" /\ ~table["anon"][i].read
    /\ Requested("read") /\ outcome.result = "ok"

(***************************************************************************)
(* Properties of the handlers (checked under Spec and SpecLogin).  A step  *)
(* that takes up a request leads from resp = NoResp to the request and its *)
(* response in resp'; the unprimed variables are the store the request     *)
(* found.                                                                  *)
(***************************************************************************)
RequestStep == resp = NoResp /\ resp' # NoResp

\* the token row is within its time to live
Alive(t) == now - tokens[t].created_at <= TOKEN_TTL_HOURS

\* the id of the identity a presented token stands for, 0 when the token is
\* absent, unknown or expired
TokenUser(auth) ==
    IF \E t \in DOMAIN tokens : tokens[t].token = auth /\ Alive(t)
    THEN tokens[CHOOSE t \in DOMAIN tokens : tokens[t].token = auth /\ Alive(t)].id_user
    ELSE 0

Rows(kind) == IF kind = "User" THEN users ELSE advertisements

\* the owner of a record: a User is its own owner, an Advertisement belongs
\* to its id_user
OwnerOf(kind, id) == IF kind = "User" THEN id ELSE advertisements[id].id_user

\* PATCH or DELETE of an existing record with a well-formed body
WriteStep ==
    /\ RequestStep
    /\ resp'.op \in {"PATCH", "DELETE"}
    /\ resp'.kind \in {"User", "Advertisement"}
    /\ resp'.id \in DOMAIN Rows(resp'.kind)
    /\ resp'.status # 422

\* the caller holds a valid token and is the record's owner or an admin
Authorized ==
    LET c == TokenUser(resp'.auth)
    IN  /\ c # 0
        /\ users[c].role_name = "admin" \/ c = OwnerOf(resp'.kind, resp'.id)

\* the caller holds a valid token, has role user and is not the owner
ForeignUser ==
    LET c == TokenUser(resp'.auth)
    IN  /\ c # 0
        /\ users[c].role_name = "user" /\ c # OwnerOf(resp'.kind, resp'.id)

ViewStep == RequestStep /\ resp'.kind \in {"User", "Advertisement"}

\* C7: a presented token authenticates its owner exactly while
\* now - created_at <= TTL; an expired token is answered like an unknown one,
\* with 401, on every resource endpoint; an expired token stays expired.
C7_TokenLife ==
    [][/\ (ViewStep /\ resp'.auth # NoToken) =>
             IF \E t \in DOMAIN tokens : tokens[t].token = resp'.auth /\ Alive(t)
             THEN /\ resp'.status # 401
                  /\ \E t \in DOMAIN tokens :
                        tokens[t].token = resp'.auth /\ resp'.user = tokens[t].id_user
             ELSE resp'.status = 401 /\ resp'.user = 0
       /\ \A t \in DOMAIN tokens :
             (~Alive(t) /\ t \in DOMAIN tokens') =>
                 now' - tokens'[t].created_at > TOKEN_TTL_HOURS]_vars

\* C7 witness: a GET (open to anonymous callers) that presented an expired
\* token of the store was answered 401.
C7_Witness ==
    /\ resp # NoResp /\ resp.op = "GET" /\ resp.status = 401
    /\ \E t \in DOMAIN tokens :
          /\ tokens[t].token = resp.auth
          /\ now - tokens[t].created_at > TOKEN_TTL_HOURS

\* a request to /login/
LoginStep == RequestStep /\ resp'.kind = "login"

\* C8 as stated, first half: for every registered identity, POST /login with
\* its username and its correct password answers 201 with a new token of
\* that identity.
C8_LoginCorrect ==
    [][LoginStep =>
        \A i \in DOMAIN users :
            (users[i].username = resp'.username
             /\ users[i].password = [bcrypt |-> resp'.password]) =>
                /\ resp'.status = 201
                /\ \E n \in (DOMAIN tokens') \ (DOMAIN tokens) :
                      /\ tokens'[n].token = resp'.token
                      /\ tokens'[n].id_user = i]_vars

\* C9: a successful login inserts exactly one Token row, with a value no
\* other row has, for the identity that logged in, created now; no step
\* changes an existing Token row, a Token row disappears only with its
\* identity, and every Token row within its time to live authenticates its
\* owner.
C9_NoRenewal ==
    [][/\ \A t \in DOMAIN tokens :
             (ViewStep /\ Alive(t) /\ tokens[t].token = resp'.auth) =>
                 resp'.user = tokens[t].id_user
       /\ (LoginStep /\ resp'.status = 201) =>
             /\ \E n \in (DOMAIN tokens') \ (DOMAIN tokens) :
                   /\ DOMAIN tokens' = (DOMAIN tokens) \cup {n}
                   /\ tokens'[n].token = resp'.token
                   /\ \A t \in DOMAIN tokens : tokens[t].token # resp'.token
                   /\ tokens'[n].created_at = now
                   /\ tokens'[n].id_user \in DOMAIN users
                   /\ users[tokens'[n].id_user].username = resp'.username
             /\ \A t \in DOMAIN tokens : t \in DOMAIN tokens' /\ tokens'[t] = tokens[t]
       /\ \A t \in DOMAIN tokens :
             IF t \in DOMAIN tokens'
             THEN tokens'[t] = tokens[t]
             ELSE tokens[t].id_user \notin DOMAIN users']_vars

\* C9 witness: a login has just issued a token to an identity that holds an
\* older token, which is still in the store and within its time to live.
C9_Witness ==
    /\ resp # NoResp /\ resp.kind = "login" /\ resp.status = 201
    /\ \E n, t \in DOMAIN tokens :
          /\ tokens[n].token = resp.token /\ t # n
          /\ tokens[t].id_user = tokens[n].id_user
          /\ tokens[t].created_at < tokens[n].created_at
          /\ Alive(t)

\* every Token and every Advertisement references an existing identity
ReferencesHold ==
    /\ \A t \in DOMAIN tokens : tokens[t].id_user \in DOMAIN users
    /\ \A a \in DOMAIN advertisements : advertisements[a].id_user \in DOMAIN users

\* C10: every Token and Advertisement references an existing identity; a
\* successful DELETE of a user removes the user with all its tokens and
\* advertisements; a removed id is never given to a later row, and a GET of
\* an advertisement that does not exist is answered NotFound (400).
C10_Cascade ==
    /\ []ReferencesHold
    /\ [][/\ (RequestStep /\ resp'.op = "DELETE" /\ resp'.kind = "User"
              /\ resp'.status = 204) =>
                /\ resp'.id \in DOMAIN users /\ resp'.id \notin DOMAIN users'
                /\ \A t \in DOMAIN tokens' : tokens'[t].id_user # resp'.id
                /\ \A a \in DOMAIN advertisements' :
                      advertisements'[a].id_user # resp'.id
          /\ \A i \in 1..(seq.User - 1) : i \notin DOMAIN users => i \notin DOMAIN users'
          /\ (RequestStep /\ resp'.op = "GET" /\ resp'.kind = "Advertisement"
              /\ resp'.id \notin DOMAIN advertisements) =>
                resp'.status \in {400, 401}]_vars

\* C10 witness: a user has just deleted itself (204); the token it presented
\* is gone, and so is the only advertisement ever created.
C10_Witness ==
    /\ resp # NoResp /\ resp.op = "DELETE" /\ resp.kind = "User" /\ resp.status = 204
    /\ resp.user = resp.id /\ resp.id \notin DOMAIN users
    /\ resp.auth \in 1..(seq.Token - 1)
    /\ \A t \in DOMAIN tokens : tokens[t].token # resp.auth
    /\ seq.Advertisement = 2 /\ advertisements = <<>>

(***************************************************************************)
(* Part 3: listing.  pagination.py Paginator as a function of the          *)
(* requested page, the request URL and the number of rows (SpecPage).      *)
(***************************************************************************)
MaxPage == 4          \* requested pages are -1..MaxPage
MaxQuantity == 11     \* quantity_objects is 0..MaxQuantity

\* config.py: VALUES_ON_PAGE
VALUES_ON_PAGE == 5

\* math.ceil(a / b) for a >= 0, b > 0
ceil_div(a, b) == (a + b - 1) \div b

\* a URL is its path and its query string, a sequence of key=value pairs
\* (the values decoded)
Pair(key, value) == [key |-> key, value |-> value]

\* the keys of a sequence of pairs, without repetition, in the order of
\* their first occurrence
RECURSIVE first_keys(_)
first_keys(pairs) ==
    IF pairs = <<>> THEN <<>>
    ELSE LET front == first_keys(SubSeq(pairs, 1, Len(pairs) - 1))
             key == pairs[Len(pairs)].key
         IN  IF \E i \in DOMAIN front : front[i] = key THEN front
             ELSE Append(front, key)

\* urllib.parse.parse_qs (keep_blank_values=False): key -> list of values, the
\* pairs with a blank value left out; a dict keeps the order of insertion
parse_qs(query) ==
    LET kept == SelectSeq(query, LAMBDA p : p.value # "")
        keys == first_keys(kept)
    IN  [i \in DOMAIN keys |->
            [key |-> keys[i],
             values |-> LET of_key == SelectSeq(kept, LAMBDA p : p.key = keys[i])
                        IN  [j \in DOMAIN of_key |-> of_key[j].value]]]

\* qs["page"] = self._page: the value of an existing key is replaced, a new
\* key goes last
set_page(qs, page) ==
    IF \E i \in DOMAIN qs : qs[i].key = "page"
    THEN [i \in DOMAIN qs |->
            IF qs[i].key = "page" THEN [key |-> "page", values |-> <<ToString(page)>>]
            ELSE qs[i]]
    ELSE Append(qs, [key |-> "page", values |-> <<ToString(page)>>])

\* urllib.parse.urlencode(qs, doseq=True): one pair for every value
RECURSIVE urlencode(_)
urlencode(qs) ==
    IF qs = <<>> THEN <<>>
    ELSE LET e == qs[1]
         IN  [j \in DOMAIN e.values |-> Pair(e.key, e.values[j])]
             \o urlencode(Tail(qs))

\* lines 80-89 Paginator._validate_url: the URL with its query string parsed,
\* page set to self._page, and encoded again
_validate_url(url, page) ==
    [url EXCEPT !.query = urlencode(set_page(parse_qs(url.query), page))]

\* lines 66-78, mutated: the link is made for any page
_get_url_unchecked(url, _page, _last_page, page) ==
    [url EXCEPT !.query =
        [i \in DOMAIN url.query |->
            IF url.query[i] = Pair("page", ToString(_page))
            THEN Pair("page", ToString(page)) ELSE url.query[i]]]

\* lines 66-78 Paginator._get_url: the text "page=<self._page>" replaced by
\* "page=<page>", or None when page is not in 1..last_page
_get_url(url, _page, _last_page, page) ==
    IF 1 <= page /\ page <= _last_page
    THEN [url EXCEPT !.query =
            [i \in DOMAIN url.query |->
                IF url.query[i] = Pair("page", ToString(_page))
                THEN Pair("page", ToString(page)) ELSE url.query[i]]]
    ELSE None

\* lines 42-43, mutated: a page above the last page is served as requested
clamp_page_unclamped(_page, _last_page) == _page

\* lines 42-43: a page above the last page becomes the last page
clamp_page(_page, _last_page) == IF _page > _last_page THEN _last_page ELSE _page

\* lines 34-45 Paginator._calculate_offset: self._last_page, self._page and
\* the offset it returns
_calculate_offset(_page, quantity_objects) ==
    LET _last_page == ceil_div(quantity_objects, VALUES_ON_PAGE)
        page == clamp_page(_page, _last_page)
    IN  [_last_page |-> _last_page,
         _page |-> page,
         _offset |-> (IF page > 0 THEN page - 1 ELSE 0) * VALUES_ON_PAGE]

\* lines 56-64 Paginator.get_paginated_page after paginate_query: the page
\* envelope without its results
get_paginated_page(url, page, quantity_objects) ==
    LET w == _calculate_offset(page, quantity_objects)
        valid == _validate_url(url, w._page)
    IN  [quantity |-> quantity_objects,
         current_page |-> w._page,
         previous |-> _get_url(valid, w._page, w._last_page, w._page - 1),
         next |-> _get_url(valid, w._page, w._last_page, w._page + 1)]

\* the search values a request URL carries ("" is search= with no value)
SearchValues == {"", "t", "tt"}

\* the query strings of the requests for a page: page=<page> (left out or
\* given for the default page 1), before or after an optional search
Queries(page) ==
    LET pages == {<<Pair("page", ToString(page))>>} \cup (IF page = 1 THEN {<<>>} ELSE {})
        searches == {<<>>} \cup {<<Pair("search", v)>> : v \in SearchValues}
    IN  {p \o q : p \in pages, q \in searches} \cup {q \o p : p \in pages, q \in searches}

Paths == {"/user/", "/advertisement/"}

\* Paginator(url, pagination_params), quantity_objects set, paginate_query
\* and get_paginated_page called
Paginate ==
    /\ call = NoCall
    /\ \E page \in (-1)..MaxPage, quantity_objects \in 0..MaxQuantity, path \in Paths :
          \E query \in Queries(page) :
            LET url == [path |-> path, query |-> query]
                w == _calculate_offset(page, quantity_objects)
            IN  /\ call' = [made |-> TRUE, page |-> page, url |-> url,
                            quantity_objects |-> quantity_objects]
                /\ outcome' = [made |-> TRUE, offset |-> w._offset,
                               limit |-> VALUES_ON_PAGE, last_page |-> w._last_page,
                               page |-> get_paginated_page(url, page, quantity_objects)]
    /\ UNCHANGED <<table, storeVars>>

InitPage ==
    /\ table = insert_data
    /\ call = NoCall
    /\ outcome = NoCall
    /\ InitStore

NextPage == Paginate

SpecPage == InitPage /\ [][NextPage]_vars

(***************************************************************************)
(* Properties of the Paginator (checked under SpecPage).                   *)
(***************************************************************************)
\* the last page of a count: the least L with count <= L * page size
LastPageOf(count) ==
    CHOOSE L \in 0..count : count <= L * VALUES_ON_PAGE
                            /\ (L > 0 => count > (L - 1) * VALUES_ON_PAGE)

\* the values a link gives its page parameter
PagesOf(link) ==
    {link.query[i].value : i \in {j \in DOMAIN link.query : link.query[j].key = "page"}}

\* a link is the URL of the given page: the path of the request and one
\* page parameter with that page
LinkTo(link, url, page) ==
    /\ link # None
    /\ link.path = url.path
    /\ PagesOf(link) = {ToString(page)}
    /\ Cardinality({i \in DOMAIN link.query : link.query[i].key = "page"}) = 1

\* C11 as stated: with totalCount = 0 (and a requested page of 1 or more) the
\* reported currentPage is 1, the offset is 0, and previous and next are
\* both None.
C11_EmptyCount ==
    (call.made /\ call.quantity_objects = 0 /\ call.page >= 1) =>
        /\ outcome.page.current_page = 1
        /\ outcome.offset = 0
        /\ outcome.page.previous = None
        /\ outcome.page.next = None

\* C12: for totalCount > 0 and a requested page above lastPage the reported
\* currentPage is lastPage, the offset is (lastPage - 1) * pageSize, next is
\* None, and previous is the URL of page lastPage - 1, None only when
\* lastPage = 1.
C12_PageAboveRange ==
    (call.made /\ call.quantity_objects > 0
     /\ call.page > LastPageOf(call.quantity_objects)) =>
        LET L == LastPageOf(call.quantity_objects)
        IN  /\ outcome.page.current_page = L
            /\ outcome.offset = (L - 1) * VALUES_ON_PAGE
            /\ outcome.page.next = None
            /\ IF L = 1 THEN outcome.page.previous = None
               ELSE LinkTo(outcome.page.previous, call.url, L - 1)

\* C12 witness: page 4 of 11 rows (three pages) is answered as page 3, whose
\* previous link is page 2.
C12_Witness ==
    /\ call.made /\ call.page = 4 /\ call.quantity_objects = 11
    /\ outcome.page.current_page = 3
    /\ outcome.page.previous # None /\ PagesOf(outcome.page.previous) = {"2"}

\* C13 as stated: for every requested page <= 0 (of a count that is not 0)
\* the reported currentPage is the clamped page 1, and the offset is
\* (1 - 1) * pageSize.
C13_PageBelowRange ==
    (call.made /\ call.page <= 0 /\ call.quantity_objects > 0) =>
        /\ outcome.page.current_page = 1
        /\ outcome.offset = (1 - 1) * VALUES_ON_PAGE

(***************************************************************************)
(* filters.py SearchFilter as a function of the search fields, the search  *)
(* parameter and one record (SpecSearch).                                  *)
(***************************************************************************)
MaxTermLen == 2       \* search parameters have at most this many characters

\* the characters of search parameters and of text columns
TermChars == {"a", "A", "1", "_", "%"}

\* the character strings of at most n characters
RECURSIVE TermsUpTo(_)
TermsUpTo(n) ==
    IF n = 0 THEN {<<>>}
    ELSE LET shorter == TermsUpTo(n - 1)
         IN  shorter \cup {Append(t, c) : t \in shorter, c \in TermChars}

\* a str object of Python: the search parameter as QueryParams holds it
Str(s) == [str |-> s]

\* the search parameters: None or a str
SearchParams == {None} \cup {Str(t) : t \in TermsUpTo(MaxTermLen)}

\* field.type.python_type of the columns searched and ordered by
python_type(field) == IF field \in {"id", "id_user", "price"} THEN "int" ELSE "str"

\* str.lower / SQL lower()
lower(s) == [i \in DOMAIN s |-> IF s[i] = "A" THEN "a" ELSE s[i]]

\* SQL LIKE: % stands for any run of characters, _ for any one character
RECURSIVE like(_, _)
like(s, pattern) ==
    IF pattern = <<>> THEN s = <<>>
    ELSE IF pattern[1] = "%"
         THEN like(s, Tail(pattern)) \/ (s # <<>> /\ like(Tail(s), pattern))
    ELSE IF pattern[1] = "_"
         THEN s # <<>> /\ like(Tail(s), Tail(pattern))
    ELSE s # <<>> /\ s[1] = pattern[1] /\ like(Tail(s), Tail(pattern))

\* sqlalchemy ColumnOperators.icontains(other), autoescape off:
\* lower(field) LIKE '%' || lower(other) || '%'
icontains(value, other) == like(lower(value), <<"%">> \o lower(other) \o <<"%">>)

DigitValue(c) == IF c = "1" THEN 1 ELSE 0

\* int(str) accepts decimal digits, single underscores between them
int_accepts(s) ==
    /\ s # <<>>
    /\ \A i \in DOMAIN s : s[i] \in {"1", "_"}
    /\ s[1] # "_" /\ s[Len(s)] # "_"
    /\ \A i \in 1..(Len(s) - 1) : ~(s[i] = "_" /\ s[i + 1] = "_")

\* the value of int(str)
RECURSIVE int_value(_)
int_value(s) ==
    IF s = <<>> THEN 0
    ELSE IF s[Len(s)] = "_" THEN int_value(SubSeq(s, 1, Len(s) - 1))
    ELSE 10 * int_value(SubSeq(s, 1, Len(s) - 1)) + DigitValue(s[Len(s)])

\* lines 67-82 SearchFilter._convert_searching_param: the parameter in the
\* type of the field, None when int() raises ValueError
_convert_searching_param(search_param, field_type) ==
    IF field_type = "str" THEN search_param
    ELSE IF int_accepts(search_param.str) THEN [int |-> int_value(search_param.str)]
    ELSE None

\* lines 42-65 SearchFilter._get_condition: icontains for a str parameter,
\* equality for an int parameter
_get_condition(search_param, field) ==
    IF "str" \in DOMAIN search_param
    THEN [field |-> field, op |-> "icontains", param |-> search_param.str]
    ELSE [field |-> field, op |-> "==", param |-> search_param.int]

\* lines 84-102 SearchFilter.get_filter_conditions
RECURSIVE search_conditions(_, _)
search_conditions(_search_fields, _searching_param) ==
    IF _searching_param = None THEN <<[op |-> "True"]>>
    ELSE IF _search_fields = <<>> THEN <<>>
    ELSE LET field == _search_fields[1]
             search_param == _convert_searching_param(_searching_param, python_type(field))
             rest == search_conditions(Tail(_search_fields), _searching_param)
         IN  IF search_param = None THEN rest
             ELSE <<_get_condition(search_param, field)>> \o rest

\* one condition evaluated on a row
condition_holds(cond, row) ==
    IF cond.op = "True" THEN TRUE
    ELSE IF cond.op = "icontains" THEN icontains(row[cond.field], cond.param)
    ELSE row[cond.field] = cond.param

\* line 192 FilterSet.filter_query: where(or_(False, *conditions))
where_search(_search_fields, _searching_param, row) ==
    LET conditions == search_conditions(_search_fields, _searching_param)
    IN  \E i \in DOMAIN conditions : condition_holds(conditions[i], row)

\* the search fields of the views, and of a filter on the number column only
SearchFieldSets == {<<"title", "description", "price">>, <<"username">>, <<"price">>}

\* the rows searched
SearchRows(fields) ==
    IF fields = <<"username">>
    THEN [username : {<<"a">>, <<"A", "1">>}]
    ELSE [title : {<<"a">>, <<"A", "1">>}, description : {<<"a", "_">>}, price : {1, 11}]

\* SearchFilter(model, search_fields, searching_param) applied to a row
Search ==
    /\ call = NoCall
    /\ \E fields \in SearchFieldSets, term \in SearchParams :
          \E row \in SearchRows(fields) :
            /\ call' = [made |-> TRUE, search_fields |-> fields,
                        searching_param |-> term, row |-> row]
            /\ outcome' = [made |-> TRUE,
                           conditions |-> search_conditions(fields, term),
                           matches |-> where_search(fields, term, row)]
    /\ UNCHANGED <<table, storeVars>>

InitSearch == InitPage

NextSearch == Search

SpecSearch == InitSearch /\ [][NextSearch]_vars

(***************************************************************************)
(* Properties of the search filter (checked under SpecSearch).             *)
(***************************************************************************)
\* the text holds the term as a substring, letter case ignored
ContainsCI(text, term) ==
    \E i \in 0..(Len(text) - Len(term)) :
        \A j \in 1..Len(term) : lower(text)[i + j] = lower(term)[j]

\* the field of the row matches the term
FieldMatches(field, row, term) ==
    IF python_type(field) = "str" THEN ContainsCI(row[field], term.str)
    ELSE int_accepts(term.str) /\ row[field] = int_value(term.str)

\* C16 as stated: with no search term every record matches; with a term a
\* record matches if and only if at least one whitelisted field matches: a
\* string field when it contains the term as a case-insensitive substring, an
\* integer field when the term parses as an integer equal to it.
C16_SearchPredicate ==
    call.made =>
        IF call.searching_param = None THEN outcome.matches
        ELSE outcome.matches <=>
                \E i \in DOMAIN call.search_fields :
                    FieldMatches(call.search_fields[i], call.row, call.searching_param)

(***************************************************************************)
(* The list handlers GET /user/ and GET /advertisement/ (SpecList):        *)
(* schema.py QueryParams, filters.py OrderingFilter and FilterSet, crud.py *)
(* Database.get_list, views.py BaseView.get_list.                          *)
(***************************************************************************)
MaxRows == 6          \* Advertisement ids of the listed stores are 1..MaxRows

\* the order_by values of the requests, and their lexical units: a column
\* name or other word, a sign, a comma, a space ("" is order_by= with no
\* value)
OrderByValues == {"id", "-id", "+id", "price", "x", "", "- id", "price,-id"}

lexemes(value) ==
    CASE value = "id" -> <<"id">>
      [] value = "-id" -> <<"-", "id">>
      [] value = "+id" -> <<"+", "id">>
      [] value = "price" -> <<"price">>
      [] value = "x" -> <<"x">>
      [] value = "" -> <<>>
      [] value = "- id" -> <<"-", " ", "id">>
      [] value = "price,-id" -> <<"price", ",", "-", "id">>

\* the characters of a search value
chars(value) ==
    CASE value = "" -> <<>>
      [] value = "t" -> <<"t">>
      [] value = "tt" -> <<"t", "t">>

\* str.split(","): the runs between commas, empty runs included
RECURSIVE split_commas(_)
split_commas(s) ==
    IF \A i \in DOMAIN s : s[i] # ","
    THEN <<s>>
    ELSE LET c == CHOOSE i \in DOMAIN s : s[i] = "," /\ \A j \in 1..(i - 1) : s[j] # ","
         IN  <<SubSeq(s, 1, c - 1)>> \o split_commas(SubSeq(s, c + 1, Len(s)))

\* schema.py lines 98-101 QueryParams.convert_order_by:
\* tuple("".join(value).replace(" ", "").split(","))
convert_order_by(value) == split_commas(SelectSeq(value, LAMBDA c : c # " "))

\* schema.py line 96, mutated: no default for order_by
default_order_by_none == <<>>

\* schema.py line 96: Field(["id"])
default_order_by == <<<<"id">>>>

\* the values a query string gives a key
values_of(query, key) ==
    LET of_key == SelectSeq(query, LAMBDA p : p.key = key)
    IN  [j \in DOMAIN of_key |-> of_key[j].value]

\* the pages the requests ask for
ListPages == {0, 1, 2, MaxPage}

\* schema.py line 94, mutated: Field(1) without ge=1
page_accepted_any(page) == TRUE

\* schema.py line 94: Field(1, ge=1)
page_accepted(page) == page >= 1

\* schema.py lines 91-101 QueryParams: the validated parameters, or "422":
\* page is an int >= 1 (default 1), search a str or None, order_by what
\* convert_order_by makes of the value, which has to be a tuple of exactly
\* one str (tuple[str]); the default of order_by is not validated
QueryParams(query) ==
    LET pages == values_of(query, "page")
        searches == values_of(query, "search")
        orders == values_of(query, "order_by")
        page == IF pages = <<>> THEN 1
                ELSE CHOOSE n \in ListPages : ToString(n) = pages[Len(pages)]
        order_by == IF orders = <<>> THEN default_order_by
                    ELSE convert_order_by(lexemes(orders[1]))
    IN  IF ~page_accepted(page) \/ (orders # <<>> /\ Len(order_by) # 1)
        THEN [status |-> "422"]
        ELSE [status |-> "ok", page |-> page,
              search |-> IF searches = <<>> THEN None
                         ELSE Str(chars(searches[Len(searches)])),
              order_by |-> order_by]

\* model.__table__.columns
columns(model) ==
    IF model = "User"
    THEN {"id", "role_name", "username", "password", "registered_at"}
    ELSE {"id", "id_user", "title", "description", "price", "created_at", "updated_at"}

\* filters.py lines 127-132, mutated: a leading "-" is taken off and ignored
direction_of_asc(field) == "asc"

\* filters.py lines 127-132: the direction a token asks for
direction_of(field) == IF field[1] = "-" THEN "desc" ELSE "asc"

\* filters.py lines 121-134 OrderingFilter._check_field: the OrderingField of
\* a token, None for an unknown column; field[0] of an empty token raises
\* IndexError
_check_field(field, model) ==
    IF field = <<>> THEN [raised |-> "IndexError"]
    ELSE LET tmp_field == IF field[1] \in {"-", "+"} THEN Tail(field) ELSE field
         IN  IF Len(tmp_field) = 1 /\ tmp_field[1] \in columns(model)
             THEN [field |-> tmp_field[1], direction |-> direction_of(field)]
             ELSE None

\* filters.py lines 136-151 OrderingFilter.get_filter_conditions: the
\* ordering keys of the recognized tokens, or the exception of the first
\* token that raises
RECURSIVE ordering_conditions(_, _)
ordering_conditions(_ordering_params, model) ==
    IF _ordering_params = <<>> THEN [keys |-> <<>>]
    ELSE LET validated_field == _check_field(_ordering_params[1], model)
             rest == ordering_conditions(Tail(_ordering_params), model)
         IN  IF "raised" \in DOMAIN validated_field THEN validated_field
             ELSE IF "raised" \in DOMAIN rest THEN rest
             ELSE IF validated_field = None THEN rest
             ELSE [keys |-> <<validated_field>> \o rest.keys]

\* the value of a column of the row id (ordering is asked for on the number
\* columns only)
column_value(rows, id, field) == IF field = "id" THEN id ELSE rows[id][field]

\* ORDER BY keys: row a comes strictly before row b
RECURSIVE comes_before(_, _, _, _)
comes_before(rows, a, b, keys) ==
    IF keys = <<>> THEN FALSE
    ELSE LET va == column_value(rows, a, keys[1].field)
             vb == column_value(rows, b, keys[1].field)
         IN  IF va = vb THEN comes_before(rows, a, b, Tail(keys))
             ELSE IF keys[1].direction = "desc" THEN va > vb ELSE va < vb

\* the orders in which the database may return the rows under ORDER BY keys:
\* a row comes next when the keys put no other row before it, so rows the
\* keys do not tell apart come in any order
RECURSIVE query_results(_, _, _)
query_results(rows, ids, keys) ==
    IF ids = {} THEN {<<>>}
    ELSE UNION {{<<x>> \o rest : rest \in query_results(rows, ids \ {x}, keys)} :
                   x \in {a \in ids : \A b \in ids : ~comes_before(rows, b, a, keys)}}

\* pagination.py line 54: query.limit(self._limit).offset(offset)
limit_offset(r, limit, offset) ==
    SubSeq(r, offset + 1, IF offset + limit < Len(r) THEN offset + limit ELSE Len(r))

search_fields_of(model) ==
    IF model = "User" THEN <<"username">> ELSE <<"title", "description", "price">>

\* the response of a list request: the request, the status, the ordering
\* keys applied and the page envelope
RespondList(model, auth, caller, query, status, keys, page) ==
    /\ resp' = [op |-> "LIST", kind |-> model, id |-> 0, auth |-> auth,
                user |-> caller, status |-> status, query |-> query,
                keys |-> keys, page |-> page]
    /\ UNCHANGED <<users, advertisements, tokens, seq, now>>

\* views.py lines 53-65 BaseView.get_list with crud.py lines 33-47
\* Database.get_list, GET /user/ and GET /advertisement/
get_list(model, authorization, query) ==
    LET auth == convert_auth_data(authorization)
        u == get_user(auth)
        query_params == QueryParams(query)
        allowed == permission(u.user, model, None, [read |-> TRUE])
        rows == IF model = "User" THEN users ELSE advertisements
        R(status) == RespondList(model, auth.token, CallerId(u), query, status, <<>>, None)
    IN  IF u.status = "401" THEN R(401)
        ELSE IF query_params.status = "422" THEN R(422)
        ELSE IF allowed # "ok" THEN R(http_status(allowed))
        ELSE LET conditions == ordering_conditions(query_params.order_by, model)
                 ids == {i \in DOMAIN rows :
                            where_search(search_fields_of(model), query_params.search,
                                         rows[i])}
                 quantity_objects == Cardinality(ids)
                 w == _calculate_offset(query_params.page, quantity_objects)
                 url == [path |-> IF model = "User" THEN "/user/" ELSE "/advertisement/",
                         query |-> query]
                 envelope == get_paginated_page(url, query_params.page, quantity_objects)
             IN  IF "raised" \in DOMAIN conditions THEN R(500)
                 ELSE \E r \in query_results(rows, ids, conditions.keys) :
                        RespondList(model, auth.token, CallerId(u), query, 200,
                                    conditions.keys,
                                    [envelope EXCEPT !.quantity = quantity_objects]
                                    @@ [results |->
                                          limit_offset(r, VALUES_ON_PAGE, w._offset)])

\* the rows of the listed Advertisement table: titles t, tt, ttt, ... and
\* two prices, so that price leaves ties
ListRow(i) ==
    [id_user |-> 1, title |-> [j \in 1..i |-> "t"], description |-> <<"d">>,
     price |-> IF i % 2 = 1 THEN 1 ELSE 11]

ListStores ==
    {[i \in (1..n) \ deleted |-> ListRow(i)] : n \in 0..MaxRows, deleted \in {{}, {1}}}

\* the query strings of the list requests: page, search and order_by, each
\* given or not
ListQueries ==
    LET pages == {<<>>} \cup {<<Pair("page", ToString(n))>> : n \in ListPages}
        searches == {<<>>} \cup {<<Pair("search", v)>> : v \in SearchValues}
        orders == {<<>>} \cup {<<Pair("order_by", v)>> : v \in OrderByValues}
    IN  {p \o q \o o : p \in pages, q \in searches, o \in orders}

\* anonymous callers and callers with a token that was never issued
ListHeaders == {NoHeader, TokenHeader(0)}

\* the admin of the service and an Advertisement table after up to MaxRows
\* creations, the first row deleted or not
InitList ==
    /\ table = insert_data
    /\ call = NoCall
    /\ outcome = NoCall
    /\ users = (1 :> [username |-> <<"a">>,
                      password |-> hash_password(<<"A", "a", "1">>),
                      role_name |-> "admin"])
    /\ advertisements \in ListStores
    /\ tokens = <<>>
    /\ seq = [User |-> 2, Advertisement |-> MaxRows + 1, Token |-> 1]
    /\ now = 0
    /\ resp = NoResp

\* GET /user/
GetUserList ==
    /\ ~Serving /\ UNCHANGED permVars
    /\ \E h \in ListHeaders, query \in ListQueries : get_list("User", h, query)

\* GET /advertisement/
GetAdvertisementList ==
    /\ ~Serving /\ UNCHANGED permVars
    /\ \E h \in ListHeaders, query \in ListQueries : get_list("Advertisement", h, query)

NextList ==
    \/ GetUserList
    \/ GetAdvertisementList
    \/ EndRequest

SpecList == InitList /\ [][NextList]_vars

(***************************************************************************)
(* Properties of the list handlers (checked under SpecList).  resp holds   *)
(* the request served last and its response.                               *)
(***************************************************************************)
Listed == resp # NoResp /\ resp.op = "LIST"

\* the request gives the parameter
Given(key) == values_of(resp.query, key) # <<>>

\* the page the request asks for
RequestedPage ==
    IF Given("page")
    THEN CHOOSE n \in ListPages : ToString(n) = values_of(resp.query, "page")[1]
    ELSE 1

\* a list request of a caller whose authentication does not fail
Resolved == Listed /\ resp.auth = NoToken

\* the last page of the listing, 1 when it is empty, and the requested page
\* clamped to 1..last page
ListLastPage ==
    IF resp.page.quantity = 0 THEN 1 ELSE LastPageOf(resp.page.quantity)

ClampedPage ==
    IF RequestedPage > ListLastPage THEN ListLastPage
    ELSE IF RequestedPage < 1 THEN 1 ELSE RequestedPage

RequestUrl ==
    [path |-> IF resp.kind = "User" THEN "/user/" ELSE "/advertisement/",
     query |-> resp.query]

OtherKeys == {"search", "order_by"}

\* C14 as stated: previous (next) is None exactly when clampedPage - 1
\* (clampedPage + 1) is outside 1..lastPage, and is otherwise the request URL
\* with its page parameter set to that page and every other parameter
\* unchanged.
C14_Original ==
    (Listed /\ resp.status = 200) =>
        /\ resp.page.previous = None <=> ClampedPage - 1 \notin 1..ListLastPage
        /\ resp.page.next = None <=> ClampedPage + 1 \notin 1..ListLastPage
        /\ resp.page.previous # None =>
              /\ LinkTo(resp.page.previous, RequestUrl, ClampedPage - 1)
              /\ \A k \in OtherKeys :
                    values_of(resp.page.previous.query, k) = values_of(resp.query, k)
        /\ resp.page.next # None =>
              /\ LinkTo(resp.page.next, RequestUrl, ClampedPage + 1)
              /\ \A k \in OtherKeys :
                    values_of(resp.page.next.query, k) = values_of(resp.query, k)

\* the values of a parameter that are not empty
NonBlank(query, key) == SelectSeq(values_of(query, key), LAMBDA v : v # "")

\* C14 amended: the same, but of the other parameters those with a value are
\* unchanged and those with an empty value are left out of the links.
C14_PageLinks ==
    (Listed /\ resp.status = 200) =>
        /\ resp.page.previous = None <=> ClampedPage - 1 \notin 1..ListLastPage
        /\ resp.page.next = None <=> ClampedPage + 1 \notin 1..ListLastPage
        /\ resp.page.previous # None =>
              /\ LinkTo(resp.page.previous, RequestUrl, ClampedPage - 1)
              /\ \A k \in OtherKeys :
                    values_of(resp.page.previous.query, k) = NonBlank(resp.query, k)
        /\ resp.page.next # None =>
              /\ LinkTo(resp.page.next, RequestUrl, ClampedPage + 1)
              /\ \A k \in OtherKeys :
                    values_of(resp.page.next.query, k) = NonBlank(resp.query, k)

\* C14 witness: a first page with a search term and an order that has a next
\* page: the link to page 2 carries both.
C14_Witness ==
    /\ Listed /\ resp.status = 200
    /\ resp.page.current_page = 1 /\ resp.page.previous = None
    /\ resp.page.next # None
    /\ PagesOf(resp.page.next) = {"2"}
    /\ values_of(resp.query, "search") = <<"t">>
    /\ values_of(resp.page.next.query, "search") = <<"t">>
    /\ values_of(resp.page.next.query, "order_by") = <<"-id">>

\* C15: a list request whose page parameter is less than 1 returns no page
\* of records; it is answered 422 (a request whose token fails to
\* authenticate is refused before that, with 401); the page is not clamped.
C15_PageRejected ==
    (Listed /\ Given("page") /\ RequestedPage < 1) =>
        /\ resp.page = None
        /\ resp.status \in {401, 422}
        /\ Resolved => resp.status = 422

\* C15 witness: an anonymous request for page 0 of the advertisements of a
\* store that has some is answered 422.
C15_Witness ==
    /\ Resolved /\ resp.kind = "Advertisement" /\ advertisements # <<>>
    /\ values_of(resp.query, "page") = <<"0">>
    /\ resp.status = 422

\* the rows of the listed table and those the search of the request keeps
ListedRows == IF resp.kind = "User" THEN users ELSE advertisements

Matching ==
    LET search == values_of(resp.query, "search")
        term == IF search = <<>> THEN None ELSE Str(chars(search[1]))
    IN  {i \in DOMAIN ListedRows :
            where_search(search_fields_of(resp.kind), term, ListedRows[i])}

\* the order tokens of the request
Tokens == convert_order_by(lexemes(values_of(resp.query, "order_by")[1]))

\* the column a token names once an optional leading sign is taken off
NameOf(token) ==
    IF token # <<>> /\ token[1] \in {"+", "-"} THEN Tail(token) ELSE token

Recognized(token) == Len(NameOf(token)) = 1 /\ NameOf(token)[1] \in columns(resp.kind)

\* the ordering key a recognized token asks for
KeyOf(token) ==
    [field |-> NameOf(token)[1],
     direction |-> IF token[1] = "-" THEN "desc" ELSE "asc"]

RECURSIVE KeysOf(_)
KeysOf(order) ==
    IF order = <<>> THEN <<>>
    ELSE (IF Recognized(order[1]) THEN <<KeyOf(order[1])>> ELSE <<>>)
         \o KeysOf(Tail(order))

\* the elements of a set of numbers in ascending order
RECURSIVE Ascending(_)
Ascending(S) ==
    IF S = {} THEN <<>>
    ELSE LET m == CHOOSE x \in S : \A y \in S : x <= y
         IN  <<m>> \o Ascending(S \ {m})

Reverse(s) == [i \in 1..Len(s) |-> s[Len(s) + 1 - i]]

\* the page of a whole listing that the response is
Window(listing) ==
    limit_offset(listing, VALUES_ON_PAGE,
                 (IF resp.page.current_page > 0 THEN resp.page.current_page - 1 ELSE 0)
                 * VALUES_ON_PAGE)

\* the records come in the order of the keys, a later key only breaking the
\* ties the earlier keys leave
OrderedBy(results, keys) ==
    \A i, j \in DOMAIN results :
        i < j => ~comes_before(ListedRows, results[j], results[i], keys)

\* C17 as stated, for a request with one order token: whatever the token,
\* the request is served; a token that names no column contributes no
\* ordering key and a token that names one contributes its key.
C17_UnknownDropped ==
    (Resolved /\ RequestedPage >= 1 /\ Given("order_by") /\ Len(Tokens) = 1) =>
        /\ resp.status = 200
        /\ resp.keys = KeysOf(Tokens)

\* C18: a list request without order_by is served ordered by id ascending;
\* a served request whose order_by tokens are all unrecognized has no
\* ordering key (the records come in whatever order the database gives).
C18_DefaultOrder ==
    /\ (Resolved /\ RequestedPage >= 1 /\ ~Given("order_by")) =>
          /\ resp.status = 200
          /\ resp.keys = <<[field |-> "id", direction |-> "asc"]>>
          /\ resp.page.results = Window(Ascending(Matching))
    /\ (Listed /\ resp.status = 200 /\ Given("order_by")
            /\ \A i \in DOMAIN Tokens : ~Recognized(Tokens[i])) =>
          /\ resp.keys = <<>>
          /\ Len(resp.page.results) = Len(Window(Ascending(Matching)))
          /\ \A i \in DOMAIN resp.page.results : resp.page.results[i] \in Matching

\* C18 witness: order_by=x is served with no ordering key and a page that is
\* not in ascending id order.
C18_Witness ==
    /\ Listed /\ resp.status = 200
    /\ values_of(resp.query, "order_by") = <<"x">>
    /\ resp.keys = <<>>
    /\ Len(resp.page.results) >= 2
    /\ resp.page.results[1] > resp.page.results[2]

\* C19 as stated: a request whose order_by is a comma-joined list of one or
\* more tokens is served, ordered by the keys of the recognized tokens in
\* the given sequence.
C19_OrderByList ==
    (Resolved /\ RequestedPage >= 1 /\ Given("order_by")
        /\ \A i \in DOMAIN Tokens : Tokens[i] # <<>>) =>
        /\ resp.status = 200
        /\ resp.keys = KeysOf(Tokens)
        /\ OrderedBy(resp.page.results, KeysOf(Tokens))

\* C20 as stated: the list returned for order_by=-id, reversed, is the list
\* returned for order_by=id, which is sorted by id ascending.
C20_Original ==
    (Listed /\ resp.status = 200) =>
        /\ values_of(resp.query, "order_by") = <<"id">> =>
              resp.page.results = Window(Ascending(Matching))
        /\ values_of(resp.query, "order_by") = <<"-id">> =>
              Reverse(resp.page.results) = Window(Ascending(Matching))

\* C20 amended: the list returned for order_by=id is the requested page of
\* the matching records in ascending id order, the list for order_by=-id the
\* same page of them in descending id order; the second, reversed, equals
\* the first when the matching records fit on one page.
C20_RoundTrip ==
    (Listed /\ resp.status = 200) =>
        /\ values_of(resp.query, "order_by") = <<"id">> =>
              resp.page.results = Window(Ascending(Matching))
        /\ values_of(resp.query, "order_by") = <<"-id">> =>
              /\ resp.page.results = Window(Reverse(Ascending(Matching)))
              /\ Cardinality(Matching) <= VALUES_ON_PAGE =>
                    Reverse(resp.page.results) = Window(Ascending(Matching))

\* C20 witness: a served order_by=-id whose records come in descending id
\* order and all fit on the page.
C20_Witness ==
    /\ Listed /\ resp.status = 200
    /\ values_of(resp.query, "order_by") = <<"-id">>
    /\ Cardinality(Matching) <= VALUES_ON_PAGE
    /\ Len(resp.page.results) >= 2
    /\ resp.page.results[1] > resp.page.results[2]

(***************************************************************************)
(* The handlers with the request body and the response body on record:     *)
(* call holds the body the request carried, outcome the record a GET       *)
(* returned.  Bodies here may carry several fields.                        *)
(***************************************************************************)

\* crud.py Database.get_detail lines 56-59, mutated: some object of the table
Database_get_detail_any(rows, id) ==
    IF id \in DOMAIN rows
    THEN [status |-> 200, obj |-> orm_object(rows, CHOOSE i \in DOMAIN rows : TRUE)]
    ELSE [status |-> 400]

\* crud.py Database.get_detail lines 56-59: the object with that id, or 400
Database_get_detail(rows, id) ==
    IF id \in DOMAIN rows THEN [status |-> 200, obj |-> orm_object(rows, id)]
    ELSE [status |-> 400]

\* models.py User.as_dict lines 119-126 and Advertisement.as_dict 170-180
as_dict(model, obj) ==
    IF model = "User"
    THEN [id |-> obj.id, username |-> obj.username, role |-> obj.role_name]
    ELSE [id |-> obj.id, id_user |-> obj.id_user, title |-> obj.title,
          description |-> obj.description, price |-> obj.price]

\* the record a GET /{kind}/{id}/ answered 200 returns: views.py line 93
\* self.user.as_dict for the caller's own User, else lines 69-70
returned(model, rows, id) ==
    [made |-> TRUE, body |-> as_dict(model, Database_get_detail(rows, id).obj)]

\* schema.py UpdateUserRequest / UpdateAdvertisementRequest bodies with any
\* of their fields set (model_dump(exclude_unset=True))
PatchUserBodies ==
    UpdateUserBodies(PlainPasswords) \cup [username : Usernames, password : PlainPasswords]

PatchAdvertisementBodies ==
    UpdateAdvertisementBodies \cup [title : Titles, description : {"d2"}]
    \cup [description : {"d2"}, price : {20}]

Recorded(body) == call' = [made |-> TRUE, body |-> body]

\* POST /user/
CreateUser ==
    /\ ~Serving /\ UNCHANGED <<table, outcome>>
    /\ \E h \in ViewHeaders, b \in CreateUserBodies(PlainPasswords) :
          UserView_create(h, b) /\ Recorded(b)

\* PATCH /user/{id}/
UpdateUser ==
    /\ ~Serving /\ UNCHANGED <<table, outcome>>
    /\ \E h \in ViewHeaders, id \in 1..MaxUsers, b \in PatchUserBodies :
          UserView_update(h, id, b) /\ Recorded(b)

\* POST /advertisement/
CreateAdvertisement ==
    /\ ~Serving /\ UNCHANGED <<table, outcome>>
    /\ \E h \in ViewHeaders, b \in CreateAdvertisementBodies :
          AdvertisementView_create(h, b) /\ Recorded(b)

\* PATCH /advertisement/{id}/
UpdateAdvertisement ==
    /\ ~Serving /\ UNCHANGED <<table, outcome>>
    /\ \E h \in ViewHeaders, id \in 1..MaxAdvertisements, b \in PatchAdvertisementBodies :
          AdvertisementView_update(h, id, b) /\ Recorded(b)

\* GET /user/{id}/
DetailUser ==
    /\ ~Serving /\ UNCHANGED <<table, call>>
    /\ \E h \in ViewHeaders, id \in 1..MaxUsers :
          /\ UserView_get_detail(h, id)
          /\ outcome' = IF resp'.status = 200 THEN returned("User", users, id)
                        ELSE NoCall

\* GET /advertisement/{id}/
DetailAdvertisement ==
    /\ ~Serving /\ UNCHANGED <<table, call>>
    /\ \E h \in ViewHeaders, id \in 1..MaxAdvertisements :
          /\ AdvertisementView_get_detail(h, id)
          /\ outcome' = IF resp'.status = 200
                        THEN returned("Advertisement", advertisements, id)
                        ELSE NoCall

\* the response is out and the record of the request is dropped
CloseRequest ==
    /\ get_session_close
    /\ call' = NoCall /\ outcome' = NoCall
    /\ UNCHANGED table

NextCrud ==
    \/ CreateUser
    \/ UpdateUser
    \/ DeleteUser
    \/ DetailUser
    \/ CreateAdvertisement
    \/ UpdateAdvertisement
    \/ DeleteAdvertisement
    \/ DetailAdvertisement
    \/ PostLogin(PlainPasswords)
    \/ CloseRequest

SpecCrud == Init /\ [][NextCrud]_vars

(***************************************************************************)
(* Properties of the record access layer (checked under SpecCrud).         *)
(***************************************************************************)

\* the caller of the request presents no token or one that authenticates
CallerResolves == resp'.auth = NoToken \/ TokenUser(resp'.auth) # 0

\* a request that names the id of a record
DetailStep ==
    /\ RequestStep
    /\ resp'.op \in {"GET", "PATCH", "DELETE"}
    /\ resp'.kind \in {"User", "Advertisement"}

\* the columns of a row as a GET returns them
Shown(kind, rows, id) ==
    IF kind = "User"
    THEN [id |-> id, username |-> rows[id].username, role |-> rows[id].role_name]
    ELSE [id |-> id, id_user |-> rows[id].id_user, title |-> rows[id].title,
          description |-> rows[id].description, price |-> rows[id].price]

\* C21: a GET, PATCH or DELETE that names an id with no record of the kind is
\* answered 400, never 404 (401 when its token does not authenticate, 422
\* when its body is not valid), returns no record and leaves the store as it
\* was; a GET of an existing id by a caller that resolves is answered 200
\* with exactly the record of that id.
C21_NotFound ==
    [][DetailStep =>
        /\ resp'.status # 404
        /\ resp'.id \notin DOMAIN Rows(resp'.kind) =>
              /\ resp'.status \in {400, 401, 422}
              /\ (CallerResolves /\ resp'.status # 422) => resp'.status = 400
              /\ outcome' = NoCall
              /\ UNCHANGED <<users, advertisements, tokens>>
        /\ (resp'.op = "GET" /\ resp'.id \in DOMAIN Rows(resp'.kind)) =>
              /\ CallerResolves => resp'.status = 200
              /\ resp'.status = 200 =>
                    /\ outcome'.made
                    /\ outcome'.body = Shown(resp'.kind, Rows(resp'.kind), resp'.id)]_vars

\* C21 witness: a GET of a user that was deleted is answered 400 while
\* another user is in the store.
C21_Witness ==
    /\ resp # NoResp /\ resp.op = "GET" /\ resp.kind = "User" /\ resp.status = 400
    /\ resp.id \notin DOMAIN users /\ resp.id < seq.User
    /\ users # <<>> /\ outcome = NoCall

\* a POST to a resource view, its body on record
CreateStep ==
    /\ RequestStep /\ resp'.op = "POST"
    /\ resp'.kind \in {"User", "Advertisement"}

\* the unique field of the kind
UniqueField(kind) == IF kind = "User" THEN "username" ELSE "title"

\* a record of the store has the unique value the body carries
Duplicate ==
    \E i \in DOMAIN Rows(resp'.kind) :
        Rows(resp'.kind)[i][UniqueField(resp'.kind)] = call'.body[UniqueField(resp'.kind)]

\* the caller may create a record of the kind with this body
MayCreate ==
    IF resp'.kind = "User"
    THEN CallerResolves /\ validate_password(call'.body.password)
    ELSE TokenUser(resp'.auth) # 0

UpdatedStep ==
    /\ RequestStep /\ resp'.op = "PATCH" /\ resp'.status = 200
    /\ resp'.kind \in {"User", "Advertisement"}

\* the value stored for a supplied one: a password is stored as its hash
Stored(field, value) == IF field = "password" THEN [bcrypt |-> value] ELSE value

\* C24: a successful update changes exactly the supplied fields of the
\* record to the supplied values (a password to its hash), leaves every other
\* field of the record as it was and changes no other record.
C24_PatchSemantics ==
    [][UpdatedStep =>
        LET kind == resp'.kind
            id == resp'.id
            before == Rows(kind)
            after == IF kind = "User" THEN users' ELSE advertisements'
        IN  /\ id \in DOMAIN before
            /\ DOMAIN after = DOMAIN before
            /\ \A f \in DOMAIN before[id] :
                  after[id][f] = IF f \in DOMAIN call'.body
                                 THEN Stored(f, call'.body[f])
                                 ELSE before[id][f]
            /\ \A i \in (DOMAIN before) \ {id} : after[i] = before[i]
            /\ kind = "User" => advertisements' = advertisements
            /\ kind = "Advertisement" => users' = users]_vars

\* C24 witness: a PATCH that supplied description and price was answered
\* 200; the advertisement has the two new values and a title.
C24_Witness ==
    /\ resp # NoResp /\ resp.op = "PATCH" /\ resp.kind = "Advertisement"
    /\ resp.status = 200 /\ call.made
    /\ DOMAIN call.body = {"description", "price"}
    /\ advertisements[resp.id].description = "d2"
    /\ advertisements[resp.id].price = 20
    /\ advertisements[resp.id].title \in Titles

(***************************************************************************)
(* Properties of roles and of login (checked under Spec and SpecLogin).    *)
(***************************************************************************)

\* C28: no step changes the role of an identity of the store, and an
\* identity enters the store only by a POST /user/ and with role user.
C28_RoleFixed ==
    [][/\ \A i \in (DOMAIN users) \cap (DOMAIN users') :
             users'[i].role_name = users[i].role_name
       /\ \A i \in (DOMAIN users') \ (DOMAIN users) :
             /\ users'[i].role_name = "user"
             /\ RequestStep /\ resp'.op = "POST" /\ resp'.kind = "User"
             /\ i >= seq.User]_vars

\* C28 witness: the admin has changed the record of a user (PATCH answered
\* 200), who still has role user.
C28_Witness ==
    /\ resp # NoResp /\ resp.op = "PATCH" /\ resp.kind = "User" /\ resp.status = 200
    /\ resp.user # resp.id /\ resp.user \in DOMAIN users
    /\ users[resp.user].role_name = "admin"
    /\ users[resp.id].role_name = "user"

\* the credentials parse into a username and a password (neither is empty
\* nor holds a colon or whitespace)
WellFormed(word) ==
    /\ word # <<>>
    /\ \A i \in DOMAIN word : word[i] \notin Whitespace \cup {":"}

\* C30: a login whose username matches no identity is answered 400 whatever
\* the password and creates no token; a login with the username of an
\* identity and a wrong password is answered 401 and creates no token.
C30_UnknownUsername ==
    [][(LoginStep /\ WellFormed(resp'.username) /\ WellFormed(resp'.password)) =>
        /\ (\A i \in DOMAIN users : users[i].username # resp'.username) =>
              /\ resp'.status = 400
              /\ tokens' = tokens
        /\ (\E i \in DOMAIN users :
                /\ users[i].username = resp'.username
                /\ users[i].password # [bcrypt |-> resp'.password]) =>
              /\ resp'.status = 401
              /\ tokens' = tokens]_vars

\* C30 witness: a login with an unknown username was answered 400 although
\* its password is the password of an identity of the store.
C30_Witness ==
    /\ resp # NoResp /\ resp.kind = "login" /\ resp.status = 400
    /\ \A i \in DOMAIN users : users[i].username # resp.username
    /\ \E i \in DOMAIN users : users[i].password = [bcrypt |-> resp.password]
    /\ tokens = <<>>

(***************************************************************************)
(* A client that reads a listing page by page: it keeps the search and     *)
(* order parameters and asks for page 1, 2, ... up to the last page the    *)
(* first answer tells.  call holds the parameters, outcome the pages       *)
(* received so far.                                                        *)
(***************************************************************************)

\* the search and order parameters of the listings that are read
WalkQueries ==
    LET searches == {<<>>, <<Pair("search", "tt")>>}
        orders == {<<>>} \cup {<<Pair("order_by", v)>> : v \in {"id", "-id", "price"}}
    IN  {q \o o : q \in searches, o \in orders}

\* the client chooses what to list
StartWalk ==
    /\ call = NoCall /\ ~Serving
    /\ \E query \in WalkQueries :
          call' = [made |-> TRUE, model |-> "Advertisement", query |-> query]
    /\ outcome' = [made |-> TRUE, pages |-> <<>>]
    /\ UNCHANGED <<table, storeVars>>

\* the pages the listing has, as the first answer tells
PagesToRead ==
    IF outcome.pages = <<>> THEN 1
    ELSE ceil_div(outcome.pages[1].quantity, VALUES_ON_PAGE)

\* GET /advertisement/?page=n with the parameters of the walk
ReadPage ==
    /\ call # NoCall /\ call.made /\ ~Serving
    /\ Len(outcome.pages) < PagesToRead
    /\ get_list(call.model, NoHeader,
                <<Pair("page", ToString(Len(outcome.pages) + 1))>> \o call.query)
    /\ outcome' = [outcome EXCEPT !.pages = Append(@, resp'.page)]
    /\ UNCHANGED <<table, call>>

InitWalk == InitList

NextWalk ==
    \/ StartWalk
    \/ ReadPage
    \/ EndRequest

SpecWalk == InitWalk /\ [][NextWalk]_vars

(***************************************************************************)
(* Properties of reading page by page (checked under SpecWalk).            *)
(***************************************************************************)

\* the records the search of the walk keeps
WalkMatching ==
    LET search == values_of(call.query, "search")
        term == IF search = <<>> THEN None ELSE Str(chars(search[1]))
    IN  {i \in DOMAIN advertisements :
            where_search(search_fields_of(call.model), term, advertisements[i])}

\* every page of the listing has been read
WalkDone ==
    /\ call.made /\ outcome.pages # <<>>
    /\ Len(outcome.pages) = PagesToRead

\* the number of times the record is on the pages read
Occurrences(id) ==
    Cardinality({<<n, i>> \in (DOMAIN outcome.pages) \X (1..VALUES_ON_PAGE) :
                    /\ i <= Len(outcome.pages[n].results)
                    /\ outcome.pages[n].results[i] = id})

\* C26 as stated: the pages 1..lastPage of a listing with fixed store and
\* parameters hold every matching record exactly once, every page but the
\* last holds pageSize records, and every page tells the number of matching
\* records as quantity.
C26_Partition ==
    /\ (call.made /\ outcome.made) =>
          \A n \in DOMAIN outcome.pages :
              /\ outcome.pages[n].quantity = Cardinality(WalkMatching)
              /\ n < PagesToRead => Len(outcome.pages[n].results) = VALUES_ON_PAGE
    /\ WalkDone => \A id \in WalkMatching : Occurrences(id) = 1

(***************************************************************************)
(* Concurrent requests (SpecConc).  The service is an asyncio application: *)
(* a handler runs until it awaits the database, and another request may    *)
(* run in between.  Each request has its own session (dependencies.py      *)
(* get_session) and so its own transaction, at the isolation level the     *)
(* engine is created with (models.py line 24: the PostgreSQL default READ  *)
(* COMMITTED): every statement reads the rows committed when it runs.      *)
(* call holds each process's request in flight, outcome its response.      *)
(***************************************************************************)
Procs == {"p1", "p2"}

\* the rows of User and Advertisement before the requests
ConcUsers ==
    (1 :> [username |-> <<"a">>, password |-> hash_password(<<"A", "a", "1">>),
           role_name |-> "admin"])
    @@ (2 :> [username |-> <<"x">>, password |-> hash_password(<<"A", "a", "1">>),
              role_name |-> "user"])

ConcAdvertisements ==
    (1 :> [id_user |-> 2, title |-> "t1", description |-> "d1", price |-> 10])

\* a token of each user, issued by login at hour 0
ConcTokens ==
    [i \in DOMAIN ConcUsers |-> [id_user |-> i, token |-> i, created_at |-> 0]]

\* no caller, the admin and the user
ConcHeaders == {NoHeader} \cup {TokenHeader(i) : i \in DOMAIN ConcTokens}

\* a request: the view method, the model, the header, the path id and the
\* validated body (the query string of a list request)
Request(op, kind, authorization, id, body) ==
    [op |-> op, kind |-> kind, authorization |-> authorization, id |-> id,
     body |-> body]

ConcRequests ==
    {Request("create", "Advertisement", h, 0, b) :
        h \in ConcHeaders, b \in CreateAdvertisementBodies}
    \cup {Request("create", "User", h, 0, b) :
             h \in ConcHeaders, b \in CreateUserBodies({<<"A", "a", "1">>})}
    \cup {Request("update", "Advertisement", h, id, b) :
             h \in ConcHeaders, id \in DOMAIN ConcAdvertisements,
             b \in [id_user : DOMAIN ConcUsers] \cup [description : {"d2"}]}
    \cup {Request("delete", "Advertisement", h, id, <<>>) :
             h \in ConcHeaders, id \in DOMAIN ConcAdvertisements}
    \cup {Request("detail", "Advertisement", h, id, <<>>) :
             h \in ConcHeaders, id \in DOMAIN ConcAdvertisements}
    \cup {Request("detail", "User", h, MaxUsers, <<>>) : h \in ConcHeaders}
    \cup {Request("list", "Advertisement", h, 0, <<Pair("page", "1")>>) :
             h \in ConcHeaders}

\* views.py, mutated: create inserts without asking check_permissions
steps_unchecked(op) ==
    IF op = "create" THEN <<"get_user", "flush", "commit">>
    ELSE IF op = "update"
    THEN <<"get_user", "get_detail", "check_permissions", "update">>
    ELSE IF op = "delete"
    THEN <<"get_user", "get_detail", "check_permissions", "delete">>
    ELSE IF op = "detail" THEN <<"get_user", "check_permissions", "get_detail">>
    ELSE <<"get_user", "check_permissions", "count", "select">>

\* views.py: the awaits of each view method in the order of its code.
\* create (lines 96-102, 140-146): check_permissions, Database.create;
\* update (lines 148-156): get_detail, check_permissions, Database.update;
\* delete (lines 72-76): get_detail, check_permissions, Database.delete;
\* get_detail (lines 67-70): check_permissions, Database.get_detail;
\* get_list (lines 53-65): check_permissions, Database.get_list (crud.py
\* line 44 the count query, line 47 the page query).  get_user is the
\* dependency resolved before the method is entered.
steps(op) ==
    IF op = "create" THEN <<"get_user", "check_permissions", "flush", "commit">>
    ELSE IF op = "update"
    THEN <<"get_user", "get_detail", "check_permissions", "update">>
    ELSE IF op = "delete"
    THEN <<"get_user", "get_detail", "check_permissions", "delete">>
    ELSE IF op = "detail" THEN <<"get_user", "check_permissions", "get_detail">>
    ELSE <<"get_user", "check_permissions", "count", "select">>

\* the flags each view method passes to check_permissions
flags(op) ==
    IF op = "create" THEN [create |-> TRUE]
    ELSE IF op = "update" THEN [owner_only |-> TRUE, update |-> TRUE]
    ELSE IF op = "delete" THEN [owner_only |-> TRUE, delete |-> TRUE]
    ELSE [read |-> TRUE]

\* the committed rows of a model's table
rows_of(kind) == IF kind = "User" THEN users ELSE advertisements

\* the request of the process is at the step
At(p, step) ==
    /\ call[p].made /\ ~outcome[p].made
    /\ steps(call[p].request.op)[call[p].pc] = step

\* the handler goes on to its next await
Proceed(p, c) ==
    /\ call' = [call EXCEPT ![p] = [c EXCEPT !.pc = @ + 1,
                                      !.log = Append(@, steps(c.request.op)[c.pc])]]
    /\ outcome' = outcome

\* the handler returns or raises: the response is out
Finish(p, status, body) ==
    /\ call' = [call EXCEPT ![p].log = Append(@, steps(call[p].request.op)[call[p].pc])]
    /\ outcome' = [outcome EXCEPT ![p] = [made |-> TRUE, status |-> status,
                                           body |-> body]]

\* a request arrives
Arrive(p) ==
    /\ ~call[p].made
    /\ \E r \in ConcRequests :
          call' = [call EXCEPT ![p] =
                      [made |-> TRUE, request |-> r, pc |-> 1, user |-> None,
                       obj |-> None, id |-> 0, row |-> None, quantity |-> 0,
                       log |-> <<>>,
                       concurrent |-> \E q \in Procs \ {p} :
                                         call[q].made /\ ~outcome[q].made]]
    /\ UNCHANGED <<table, outcome, storeVars>>

\* dependencies.py get_user; views.py lines 90-94: UserView.get_detail
\* answers the caller's own id from the resolved user
ResolveCaller(p) ==
    /\ At(p, "get_user")
    /\ LET r == call[p].request
           u == get_user(convert_auth_data(r.authorization))
       IN  IF u.status = "401" THEN Finish(p, 401, None)
           ELSE IF r.op = "detail" /\ r.kind = "User" /\ CallerId(u) = r.id
           THEN Finish(p, 200, as_dict("User", orm_object(users, r.id)))
           ELSE Proceed(p, [call[p] EXCEPT !.user = u.user])
    /\ UNCHANGED <<table, storeVars>>

\* auth.py check_permissions with the flags of the view method and the
\* object the method has loaded
Consult(p) ==
    /\ At(p, "check_permissions")
    /\ LET r == call[p].request
           result == permission(call[p].user, r.kind, call[p].obj, flags(r.op))
       IN  IF result # "ok" THEN Finish(p, http_status(result), None)
           ELSE Proceed(p, call[p])
    /\ UNCHANGED <<table, storeVars>>

\* crud.py lines 49-59 Database.get_detail: session.get, 400 when no row
Load(p) ==
    /\ At(p, "get_detail")
    /\ LET r == call[p].request
           found == Database_get_detail(rows_of(r.kind), r.id)
       IN  IF found.status = 400 THEN Finish(p, 400, None)
           ELSE IF r.op = "detail" THEN Finish(p, 200, as_dict(r.kind, found.obj))
           ELSE Proceed(p, [call[p] EXCEPT !.obj = found.obj])
    /\ UNCHANGED <<table, storeVars>>

\* the value of the unique column of a row (models.py lines 107, 160)
unique_value(kind, row) == IF kind = "User" THEN row.username ELSE row.title

\* the row a create request inserts (views.py lines 98-101, 142-145)
new_row(r, user) ==
    IF r.kind = "User"
    THEN [username |-> r.body.username, password |-> hash_password(r.body.password),
          role_name |-> "user"]
    ELSE [id_user |-> user.id, title |-> r.body.title,
          description |-> r.body.description, price |-> r.body.price]

\* models.py lines 107, 160, mutated: an insert does not wait for the
\* transaction that holds the same unique value
waits_for_none(p, kind, row) == FALSE

\* models.py lines 107, 160 (unique=True): an insert waits while another
\* transaction has inserted the same unique value and has not committed
waits_for(p, kind, row) ==
    \E q \in Procs \ {p} :
        /\ At(q, "commit")
        /\ call[q].request.kind = kind
        /\ unique_value(kind, call[q].row) = unique_value(kind, row)

\* the constraints of a model's table hold of the rows
integrity(kind, rows) ==
    IF kind = "User" THEN user_integrity(rows) ELSE adv_integrity(rows, users)

\* crud.py lines 61-69 Database.create, lines 21-27 _save_changes: the
\* INSERT of session.commit(); IntegrityError is answered 409
Flush(p) ==
    /\ At(p, "flush")
    /\ LET r == call[p].request
           row == new_row(r, call[p].user)
           id == seq[r.kind]
       IN  /\ ~waits_for(p, r.kind, row)
           /\ seq' = [seq EXCEPT ![r.kind] = id + 1]
           /\ IF integrity(r.kind, With(rows_of(r.kind), id, row))
              THEN Proceed(p, [call[p] EXCEPT !.id = id, !.row = row])
              ELSE Finish(p, 409, None)
    /\ UNCHANGED <<table, users, advertisements, tokens, now, resp>>

\* crud.py lines 21-27 _save_changes: the COMMIT of session.commit()
Commit(p) ==
    /\ At(p, "commit")
    /\ LET r == call[p].request
           created == With(rows_of(r.kind), call[p].id, call[p].row)
       IN  /\ IF r.kind = "User"
              THEN users' = created /\ advertisements' = advertisements
              ELSE advertisements' = created /\ users' = users
           /\ Finish(p, 201, as_dict(r.kind, orm_object(created, call[p].id)))
    /\ UNCHANGED <<table, tokens, seq, now, resp>>

\* the attributes the unit of work writes: those whose new value differs
\* from the loaded one (crud.py lines 78-80)
dirty(obj, validated_data) ==
    [f \in {g \in DOMAIN validated_data : validated_data[g] # obj[g]} |->
        validated_data[f]]

\* crud.py lines 71-82 Database.update: UPDATE ... WHERE id = obj.id and
\* COMMIT, then refresh; a row that is gone raises in the unit of work or in
\* refresh (500), IntegrityError is answered 409
Update(p) ==
    /\ At(p, "update")
    /\ LET r == call[p].request
           id == call[p].obj.id
       IN  IF id \notin DOMAIN advertisements
           THEN advertisements' = advertisements /\ Finish(p, 500, None)
           ELSE LET row == setattrs(advertisements[id],
                                    dirty(call[p].obj, r.body))
                    updated == With(advertisements, id, row)
                IN  IF ~adv_integrity(updated, users)
                    THEN advertisements' = advertisements /\ Finish(p, 409, None)
                    ELSE /\ advertisements' = updated
                         /\ Finish(p, 200, as_dict(r.kind, orm_object(updated, id)))
    /\ UNCHANGED <<table, users, tokens, seq, now, resp>>

\* crud.py lines 84-92 Database.delete: DELETE ... WHERE id = obj.id and
\* COMMIT; a row that is gone is not an error
Delete(p) ==
    /\ At(p, "delete")
    /\ advertisements' = Without(advertisements, call[p].obj.id)
    /\ Finish(p, 204, None)
    /\ UNCHANGED <<table, users, tokens, seq, now, resp>>

\* the ids of the rows a list request selects
selected(r) ==
    {i \in DOMAIN rows_of(r.kind) :
        where_search(search_fields_of(r.kind), QueryParams(r.body).search,
                     rows_of(r.kind)[i])}

\* crud.py lines 29-31, 44 Database._calculate_quantity: SELECT count(*)
Count(p) ==
    /\ At(p, "count")
    /\ Proceed(p, [call[p] EXCEPT !.quantity = Cardinality(selected(call[p].request))])
    /\ UNCHANGED <<table, storeVars>>

\* crud.py lines 45-47: the page query, its offset calculated from the
\* quantity; views.py line 65: the envelope
Select(p) ==
    /\ At(p, "select")
    /\ LET r == call[p].request
           query_params == QueryParams(r.body)
           keys == ordering_conditions(query_params.order_by, r.kind).keys
           w == _calculate_offset(query_params.page, call[p].quantity)
       IN  \E found \in query_results(rows_of(r.kind), selected(r), keys) :
              Finish(p, 200, [quantity |-> call[p].quantity,
                              current_page |-> w._page,
                              results |-> limit_offset(found, VALUES_ON_PAGE,
                                                       w._offset)])
    /\ UNCHANGED <<table, storeVars>>

InitConc ==
    /\ table = insert_data
    /\ call = [p \in Procs |-> NoCall]
    /\ outcome = [p \in Procs |-> NoCall]
    /\ users = ConcUsers
    /\ advertisements = ConcAdvertisements
    /\ tokens = ConcTokens
    /\ seq = [User |-> 3, Advertisement |-> 2, Token |-> 3]
    /\ now = 0
    /\ resp = NoResp

\* two requests, each step of one taken between the steps of the other
NextConc ==
    \/ \E p \in Procs : Arrive(p)
    \/ \E p \in Procs : ResolveCaller(p)
    \/ \E p \in Procs : Consult(p)
    \/ \E p \in Procs : Load(p)
    \/ \E p \in Procs : Flush(p)
    \/ \E p \in Procs : Commit(p)
    \/ \E p \in Procs : Update(p)
    \/ \E p \in Procs : Delete(p)
    \/ \E p \in Procs : Count(p)
    \/ \E p \in Procs : Select(p)

SpecConc == InitConc /\ [][NextConc]_vars

(***************************************************************************)
(* Properties of concurrent requests (checked under SpecConc).             *)
(***************************************************************************)
\* the request of the process is answered
Answered(p) == call[p].made /\ outcome[p].made

\* the event is in the log of the process's request
Did(p, event) == \E i \in DOMAIN call[p].log : call[p].log[i] = event

\* the two processes each sent a create of the same model with the same
\* unique value, a value no row held before, and both reached the insert
SameValueCreates(p, q) ==
    /\ p # q /\ Answered(p) /\ Answered(q)
    /\ call[p].request.op = "create" /\ call[q].request.op = "create"
    /\ call[p].request.kind = call[q].request.kind
    /\ LET kind == call[p].request.kind
           initial == IF kind = "User" THEN ConcUsers ELSE ConcAdvertisements
           value == unique_value(kind, call[p].request.body)
       IN  /\ unique_value(kind, call[q].request.body) = value
           /\ \A i \in DOMAIN initial : unique_value(kind, initial[i]) # value
    /\ Did(p, "flush") /\ Did(q, "flush")

\* C23: under any interleaving of two create requests carrying the same
\* unique title (or username), a value that was free, exactly one is
\* answered 201 and the other 409, and the store never holds two records
\* with the same title or the same username.
C23_OneCreateWins ==
    /\ \A i, j \in DOMAIN advertisements :
          advertisements[i].title = advertisements[j].title => i = j
    /\ \A i, j \in DOMAIN users : users[i].username = users[j].username => i = j
    /\ \A p, q \in Procs :
          SameValueCreates(p, q) =>
              /\ {outcome[p].status, outcome[q].status} = {201, 409}
              /\ outcome[p].status # outcome[q].status

\* two creates of the same free title overlapped: one is answered 201, the
\* other, which arrived while the first was in flight, 409
C23_Witness ==
    \E p, q \in Procs :
        /\ SameValueCreates(p, q)
        /\ call[p].request.kind = "Advertisement"
        /\ call[q].concurrent
        /\ outcome[p].status = 201 /\ outcome[q].status = 409

\* the steps in which the record access layer (crud.py Database) reads
\* records, and those in which it writes them
Reads == {"get_detail", "count", "select"}
Writes == {"flush", "commit", "update", "delete"}

\* an event of the steps is in the log before position i
Before(p, i, events) == \E j \in 1..(i - 1) : call[p].log[j] \in events

\* the caller of the request was resolved: get_user returned
Resolved_caller(p) ==
    /\ Did(p, "get_user")
    /\ ~(Answered(p) /\ Len(call[p].log) = 1 /\ outcome[p].status = 401)

\* C25 as stated: on every request the permission evaluator is consulted
\* after the caller is resolved and before the record access layer reads or
\* writes any record.
C25_Original ==
    \A p \in Procs :
        call[p].made =>
            /\ \A i \in DOMAIN call[p].log :
                  /\ call[p].log[i] = "check_permissions"
                        => Before(p, i, {"get_user"})
                  /\ call[p].log[i] \in Reads \cup Writes
                        => Before(p, i, {"check_permissions"})
            /\ (Answered(p) /\ Resolved_caller(p)) => Did(p, "check_permissions")

\* C25: on every request the permission evaluator is consulted only after
\* the caller is resolved, and no record is written before it has allowed
\* the request.  List, detail and create requests read or write nothing
\* before it is consulted.  Update and delete requests first load the
\* target by id, and that one read is all that comes before the
\* consultation; a missing target is answered 400 without it.  GET of the
\* caller's own User is answered from the resolved caller: nothing is read
\* and the evaluator is not consulted.
C25_ConsultedBeforeWrite ==
    \A p \in Procs :
        call[p].made =>
            LET log == call[p].log
                op == call[p].request.op
            IN  /\ \A i \in DOMAIN log :
                      /\ log[i] = "check_permissions" => Before(p, i, {"get_user"})
                      /\ log[i] \in Writes => Before(p, i, {"check_permissions"})
                      /\ (log[i] \in Reads /\ op \in {"list", "detail", "create"})
                            => Before(p, i, {"check_permissions"})
                      /\ (log[i] \in Reads /\ op \in {"update", "delete"})
                            => /\ log[i] = "get_detail"
                               /\ ~Before(p, i, Reads \cup Writes)
                /\ (Answered(p) /\ Resolved_caller(p) /\ ~Did(p, "check_permissions"))
                      => \/ /\ op \in {"update", "delete"}
                            /\ outcome[p].status = 400
                         \/ /\ op = "detail" /\ call[p].request.kind = "User"
                            /\ outcome[p].status = 200
                            /\ log = <<"get_user">>

\* an update was applied: the caller was resolved, the target loaded, the
\* evaluator consulted and then the row written
C25_Witness ==
    \E p \in Procs :
        /\ Answered(p) /\ outcome[p].status = 200
        /\ call[p].log = <<"get_user", "get_detail", "check_permissions", "update">>

\* the step of the process commits the write of its update or delete
\* request to a row that is in the store
Committed(p) ==
    /\ At(p, "update") \/ At(p, "delete")
    /\ call[p].obj.id \in DOMAIN advertisements
    /\ outcome'[p].made /\ outcome'[p].status \in {200, 204}

\* C27 as stated: under any interleaving of concurrent requests, whenever
\* an update or delete of an advertisement issued by a caller with role
\* user is committed, that caller is the owner of the advertisement in the
\* store at the moment of the commit.
C27_OwnerAtCommit ==
    [][\A p \in Procs :
          (Committed(p) /\ call[p].user.role_name = "user")
              => advertisements[call[p].obj.id].id_user = call[p].user.id]_vars

\* the state of the store a list response describes: the one its results
\* were read from
Described(p) == At(p, "select") /\ outcome'[p].made

\* C29 as stated: in every list response, also when other requests create
\* or delete records concurrently, quantity is the number of matching
\* records in the state from which results was read and results is the
\* window at offset (current_page - 1) * pageSize of that state.
C29_OneStoreState ==
    [][\A p \in Procs :
          Described(p) =>
              LET page == outcome'[p].body
                  ids == selected(call[p].request)
              IN  /\ page.quantity = Cardinality(ids)
                  /\ \E found \in query_results(advertisements, ids, <<>>) :
                        /\ \A i \in 1..(Len(found) - 1) : found[i] < found[i + 1]
                        /\ page.results =
                              IF page.current_page = 0 THEN <<>>
                              ELSE limit_offset(found, VALUES_ON_PAGE,
                                       (page.current_page - 1) * VALUES_ON_PAGE)]_vars

====
